---- MODULE Spec2Model ----
(***************************************************************************)
(* Model of the export service of memvid-export-api: the job registry,     *)
(* the per-job event log and broadcast bus, the submission and cancel      *)
(* handlers, the single export worker with its heartbeat task, the event   *)
(* stream set-up and the retention collector.                              *)
(*                                                                         *)
(* Granularity: one action per critical section (a section of code that    *)
(* holds the registry write lock, or a read of the registry followed by    *)
(* code without an await), so that every interleaving at the awaits of the *)
(* Rust code is an interleaving of actions here.                           *)
(*                                                                         *)
(* Numbers: progress values are f64 percentages in the code.  Here they    *)
(* are integers in units of 1/10000 percent (P(60) is 60.0), which keeps   *)
(* every value the pipeline computes exact.                                *)
(***************************************************************************)
EXTENDS Integers, Sequences, FiniteSets, TLC

\* ---------------------------------------------------------------- bounds
\* Number of POST /v1/exports requests the clients make (SpecQueue; the
\* other specifications follow one job).
MaxJobs == 2
\* config.queue_capacity (default 128), scaled down.
QueueCapacity == 1
\* Heartbeat events one heartbeat loop appends to one job.
MaxHeartbeats == 1
\* Frames the capsule writer writes for one job (docs.len()).
TotalFrames == 1
\* Ticks of the wall clock.
MaxNow == 1
\* Largest sinceSeq the streaming client asks for.
MaxSince == 1
\* config.retention_seconds (default 86400), in ticks.
RetentionSeconds == 1
\* Seqs one job issues while its write heartbeat keeps running (SpecRing).
MaxRingSeq == 5003
\* Milliseconds of the monotonic clock.
MaxInst == 2000
\* Calls made on the query cache.
MaxCacheOps == 4
\* Pages one client asks for.
MaxPages == 4

\* Concurrent tool calls for one capsule path, and the node ids of a capsule.
MaxToolCalls == 3
MaxNodeIds == 2

\* ------------------------------------------------------ program constants
MAX_JOB_EVENTS == 5000
EVENTS_DEFAULT_LIMIT == 200
EVENTS_MAX_LIMIT == 2000
P(x) == x * 10000
WRITE_STAGE_START == P(60)
WRITE_STAGE_END == P(79)
SIDECAR_STAGE_START == P(79)
SIDECAR_STAGE_END == P(90)

JobIds == 1..MaxJobs

JobStates == {"queued", "running", "completed", "failed", "canceled", "expired"}
TerminalStates == {"completed", "failed", "canceled", "expired"}

VARIABLES
  jobs,        \* state.jobs: job id -> JobRecord (status "none": no record)
  buses,       \* state.event_buses: the job ids that have a broadcast sender
  queue,       \* the bounded mpsc queue of job ids
  files,       \* job ids whose capsule file exists on disk
  now,         \* the wall clock
  cpc,         \* create_export: position of the handler of each job
  wpc,         \* worker: position in the pipeline ("idle": in queue_rx.recv)
  wjob,        \* worker: job id being processed (0 when idle)
  written,     \* worker: written_frames of the running capsule write
  werr,        \* worker: the write result is an error
  smsg,        \* worker: sidecar_message
  wnow,        \* worker: `now` taken before the finalize section
  hb,          \* write heartbeat task of each job: "off" or "on"
  can_pc,      \* cancel_export: position of the handler
  can_job,     \* cancel_export: job id of the request in progress
  can_del,     \* cancel_export: artifact_to_delete is Some
  can_resp,    \* cancel_export: the response snapshot (job.to_response())
  cl_pc,       \* cleanup_expired_artifacts: position
  cl_files,    \* cleanup_expired_artifacts: files_to_delete
  cl_ids,      \* cleanup_expired_artifacts: expired_job_ids
  st_job,      \* the job the streaming client follows
  st_pc,       \* stream_export_events: position
  st_since,    \* stream_export_events: since_seq
  st_replay,   \* stream_export_events: replay_events (their seqs)
  st_recv,     \* seqs of the events sent to the streaming client, in order
  pend,        \* per task: the event appended to the log and not yet broadcast
  clk,         \* per task: `now` of its append_job_event call in progress
  resp,        \* the read-only request in progress and its answer
  limiter,     \* state.rate_limiter: per_minute and burst after RateLimiter::new
  buckets,     \* state.rate_limiter.buckets: key -> BucketState (<<>>: no entry)
  inst,        \* the monotonic clock (Instant), in milliseconds
  rate,        \* the RateLimitDecision of the last check
  mcp_resp,    \* the last POST /mcp: its Authorization header and its answer
  auth,        \* the last verify_bearer call of an export route and its outcome
  cache,       \* state.mcp_cache: the QueryCache (capacity, order, values)
  cache_ops,   \* the get and set calls made on the cache so far, in order
  got,         \* the result of the last QueryCache::get (<<>>: None)
  rows,        \* paginate_ranked: the ranked rows of the query
  page_limit,  \* paginate_ranked: limit
  cursor,      \* the cursor of the next page request (<<>>: None)
  pages,       \* the PaginatedResults returned so far, in order
  cur,         \* the last cursor encoded and decoded again
  remote,      \* the status the Runpod endpoint reports for the submitted job
  last_status, \* process_export_job_runpod: last_status
  rstatus,     \* process_export_job_runpod: status.status of the last poll
  backend_mode, \* state.config.backend_mode
  capsule,     \* the node ids of the frames of the capsule file, in order
  sidecar,     \* the sidecar database: <<>> (no file) or <<rows of nodes_by_id>>
  mcp_indexes, \* state.mcp_indexes: <<>> (no entry) or <<the cached index>>
  tpc,         \* get_or_load_index: position of each tool call
  tidx,        \* get_or_load_index: the index each call loaded or was given
  loaded,      \* the calls that ran the load-or-build closure
  held,        \* per call: the sidecar as it was when its persist began
  tcall,       \* run_tool: the tool and arguments of each call (<<>>: none yet)
  answers      \* run_tool: what each call returned (<<>>: nothing yet)

workerVars == <<wpc, wjob, written, werr, smsg, wnow>>
cancelVars == <<can_pc, can_job, can_del, can_resp>>
cleanVars == <<cl_pc, cl_files, cl_ids>>
streamVars == <<st_job, st_pc, st_since, st_replay, st_recv>>
runpodVars == <<remote, last_status, rstatus, backend_mode>>

limiterVars == <<limiter, buckets, inst, rate>>
\* The edge of the service: authentication and the /mcp endpoint.
cacheVars == <<cache, cache_ops, got>>
pageVars == <<rows, page_limit, cursor, pages, cur>>
edgeVars == <<limiterVars, mcp_resp, auth, cacheVars, pageVars>>

\* The export service: everything but the /mcp endpoint and its parts.
exportVars == <<jobs, buses, queue, files, now, cpc, wpc, wjob, written, werr, smsg,
                wnow, hb, can_pc, can_job, can_del, can_resp, cl_pc, cl_files,
                cl_ids, st_job, st_pc, st_since, st_replay, st_recv, pend, clk,
                resp, runpodVars>>

\* The side-index of the capsule and the tool calls that ask for it.
callVars == <<tcall, answers>>
toolVars == <<capsule, sidecar, mcp_indexes, tpc, tidx, loaded, held, callVars>>

vars == <<exportVars, edgeVars, toolVars>>

\* ------------------------------------------------------------ job records
NoJob ==
  [status |-> "none", progress |-> 0, stage |-> "none", stage_progress |-> 0,
   message |-> "", request |-> FALSE, artifact |-> <<>>,
   artifact_path |-> FALSE, error |-> "none", events |-> <<>>, next_seq |-> 1,
   created_at |-> 0, updated_at |-> 0, last_event_at |-> 0]

\* The JobRecord create_export builds.
NewJobRecord ==
  [status |-> "queued", progress |-> 0, stage |-> "queued", stage_progress |-> 0,
   message |-> "Queued for export", request |-> TRUE, artifact |-> <<>>,
   artifact_path |-> FALSE, error |-> "none", events |-> <<>>, next_seq |-> 1,
   created_at |-> now, updated_at |-> now, last_event_at |-> now]

JobExists(j) == jobs[j].status # "none"

Min(a, b) == IF a < b THEN a ELSE b
Max(a, b) == IF a > b THEN a ELSE b
Clamp(x, lo, hi) == Max(lo, Min(x, hi))

\* lerp_stage_progress(stage_progress, start, end): start + (end - start) * t
\* with t = stage_progress / 100 clamped to [0, 1].  The stage windows are
\* whole percentages, so (end - start) is divided by P(1) first, which keeps
\* the product within TLC's integers and the result exact.
lerp_stage_progress(sp, start, end) ==
  LET t == Clamp(sp, 0, P(100))
  IN  Clamp(start + (((end - start) \div P(1)) * t) \div 100, 0, P(100))

\* --------------------------------------------------------------- event log
\* A faulty variant of the filter that drops events only for a missing job.
AppendDroppedOnlyMissing(job, type) == job.status = "none"

\* append_job_event drops the event (returns Ok(None)) for a canceled or
\* expired job unless the event is itself job_canceled or job_expired.
AppendDropped(job, type) ==
  \/ job.status = "none"
  \/ /\ job.status \in {"canceled", "expired"}
     /\ type \notin {"job_canceled", "job_expired"}

NewEvent(job, ts, type, stage, progress, sp, msg) ==
  [seq |-> job.next_seq, ts |-> ts, type |-> type, stage |-> stage,
   progress |-> Clamp(progress, 0, P(100)),
   stage_progress |-> Clamp(sp, 0, P(100)), message |-> msg]

\* A faulty variant of the trim that never drops an event.
TrimEventsNever(evs) == evs

\* while job.events.len() > MAX_JOB_EVENTS { job.events.pop_front(); }
RECURSIVE TrimEvents(_)
TrimEvents(evs) ==
  IF Len(evs) > MAX_JOB_EVENTS THEN TrimEvents(Tail(evs)) ELSE evs

\* A faulty variant of the critical section that logs the event and leaves
\* next_seq as it was, so that the next event repeats the seq.
AppendLockedSeqNotRaised(job, ts, type, stage, progress, sp, msg) ==
  IF AppendDropped(job, type) THEN job
  ELSE [job EXCEPT
          !.progress = Clamp(progress, 0, P(100)),
          !.stage = stage,
          !.stage_progress = Clamp(sp, 0, P(100)),
          !.message = msg,
          !.updated_at = ts,
          !.last_event_at = ts,
          !.events = TrimEvents(Append(@, NewEvent(job, ts, type, stage, progress, sp, msg)))]

\* The critical section of append_job_event: the job record after the call.
AppendLocked(job, ts, type, stage, progress, sp, msg) ==
  IF AppendDropped(job, type) THEN job
  ELSE [job EXCEPT
          !.progress = Clamp(progress, 0, P(100)),
          !.stage = stage,
          !.stage_progress = Clamp(sp, 0, P(100)),
          !.message = msg,
          !.updated_at = ts,
          !.last_event_at = ts,
          !.next_seq = @ + 1,
          !.events = TrimEvents(Append(@, NewEvent(job, ts, type, stage, progress, sp, msg)))]

\* The tasks that append events and then broadcast them.
Tasks == {"create", "worker", "hb", "cancel"}

\* A broadcast reaches nobody unless it is for the job the streaming client
\* follows, so only those are kept pending between the append and the send.
Pending(j, job, ts, type, stage, progress, sp, msg) ==
  IF j = st_job /\ st_pc \notin {"closed", "gone", "notfound"}
     /\ ~AppendDropped(job, type)
  THEN <<NewEvent(job, ts, type, stage, progress, sp, msg)>>
  ELSE <<>>

\* append_job_event called by task t for job j: the critical section.  The
\* send to the bus follows in Broadcast(t).
TaskReady(t, j) == j = st_job => pend[t] = <<>>

\* `let now = Utc::now()` is the first statement of the call, before the
\* registry lock is awaited: CallTime(t) is the value task t read if it
\* has read one (ReadClock), and the present time if the read and the
\* section follow each other without a tick between them.
CallTime(t) == IF clk[t] = <<>> THEN now ELSE clk[t][1]

AppendJobEvent(t, j, type, stage, progress, sp, msg) ==
  /\ TaskReady(t, j)
  /\ jobs' = [jobs EXCEPT
               ![j] = AppendLocked(@, CallTime(t), type, stage, progress, sp, msg)]
  /\ pend' = [pend EXCEPT
               ![t] = Pending(j, jobs[j], CallTime(t), type, stage, progress, sp, msg)]
  /\ clk' = [clk EXCEPT ![t] = <<>>]

\* The second half of append_job_event: look the sender up and send.
Broadcast(t) ==
  /\ pend[t] # <<>>
  /\ pend' = [pend EXCEPT ![t] = <<>>]
  /\ st_recv' = IF st_job \in buses /\ st_pc = "live"
                THEN Append(st_recv, pend[t][1].seq)
                ELSE st_recv
  /\ UNCHANGED <<edgeVars, toolVars, runpodVars, resp, clk, jobs, buses, queue, files, now, cpc, wpc, wjob, written, werr,
                 smsg, wnow, hb, can_pc, can_job, can_del, can_resp, cl_pc,
                 cl_files, cl_ids, st_job, st_pc, st_since, st_replay>>

\* ----------------------------------------------------------- create_export
\* The job id is a fresh UUID; here the ids are handed out in order.
FreshId(j) == ~JobExists(j) /\ \A k \in JobIds : k < j => JobExists(k)

\* POST /v1/exports, authenticated and valid: insert the record and the bus.
CreateInsert(j) ==
  /\ FreshId(j)
  /\ cpc[j] = "none"
  /\ jobs' = [jobs EXCEPT ![j] = NewJobRecord]
  /\ buses' = buses \cup {j}
  /\ cpc' = [cpc EXCEPT ![j] = "send"]
  /\ UNCHANGED <<edgeVars, toolVars, runpodVars, resp, clk, queue, files, now, workerVars, hb, cancelVars, cleanVars,
                 streamVars, pend>>

\* The answer of a request that is answered without a change of state; no
\* such request is in progress.
NoRequest ==
  [kind |-> "none", job |-> 0, code |-> 0, error |-> "", events |-> <<>>,
   next_seq |-> 0, since |-> 0, limit |-> <<>>]

\* A faulty variant of the payload test that looks at the nodes only.
InvalidOnlyNoNodes(nodes, relationships) == nodes = 0

\* payload.nodes.is_empty() || payload.relationships.is_empty(), for a
\* payload with `nodes` nodes and `relationships` relationships.
InvalidExportRequest(nodes, relationships) ==
  nodes = 0 \/ relationships = 0

\* POST /v1/exports, authenticated: the payload test and its 400 answer, or
\* the insert.
CreateRequest(j, nodes, relationships) ==
  IF InvalidExportRequest(nodes, relationships)
  THEN /\ resp = NoRequest
       /\ resp' = [NoRequest EXCEPT !.kind = "create", !.code = 400,
                                    !.error = "INVALID_EXPORT_REQUEST"]
       /\ UNCHANGED <<edgeVars, toolVars, runpodVars, jobs, buses, queue, files, now, cpc, workerVars, hb,
                      cancelVars, cleanVars, streamVars, pend, clk>>
  ELSE CreateInsert(j)

\* state.queue_tx.send(job_id).await: completes once the queue has room,
\* as long as the receiver lives (the worker loop never returns).
CreateSend(j) ==
  /\ cpc[j] = "send"
  /\ wpc # "closed"
  /\ Len(queue) < QueueCapacity
  /\ queue' = Append(queue, j)
  /\ cpc' = [cpc EXCEPT ![j] = "append"]
  /\ UNCHANGED <<edgeVars, toolVars, runpodVars, resp, clk, jobs, buses, files, now, workerVars, hb, cancelVars, cleanVars,
                 streamVars, pend>>

\* A faulty variant of the rollback that leaves the bus in place.
BusesKept(bs, j) == bs

\* buses.remove(&job_id) of the rollback.
BusesWithout(bs, j) ==
  bs \ {j}

\* state.queue_tx.send(..).await.is_err(): the receiver is gone.  The record
\* and the bus are removed and the answer is 503 QUEUE_UNAVAILABLE.
CreateSendFail(j) ==
  /\ cpc[j] = "send"
  /\ wpc = "closed"
  /\ jobs' = [jobs EXCEPT ![j] = NoJob]
  /\ buses' = BusesWithout(buses, j)
  /\ cpc' = [cpc EXCEPT ![j] = "unavailable"]
  /\ UNCHANGED <<edgeVars, toolVars, runpodVars, resp, clk, queue, files, now, workerVars, hb,
                 cancelVars, cleanVars, streamVars, pend>>

\* The "Queued for export" event; the 202 answer follows its broadcast.
CreateAppend(j) ==
  /\ cpc[j] = "append"
  /\ AppendJobEvent("create", j, "stage_progress", "queued", 0, 0, "Queued for export")
  /\ cpc' = [cpc EXCEPT ![j] = "done"]
  /\ UNCHANGED <<edgeVars, toolVars, runpodVars, resp, buses, queue, files, now, workerVars, hb, cancelVars, cleanVars,
                 streamVars>>

\* The client has the 202 answer of job j, and with it the job id.
Known(j) == cpc[j] = "done" /\ TaskReady("create", j)

\* ------------------------------------------------------------------ worker
WorkerReady == pend["worker"] = <<>>

\* The worker's locals after an assignment to all of them.
SetWorker(pc, j, w, e, m, t) ==
  /\ wpc' = pc
  /\ wjob' = j
  /\ written' = w
  /\ werr' = e
  /\ smsg' = m
  /\ wnow' = t

\* Back in queue_rx.recv(): the locals of the pipeline are gone.
WorkerIdle == SetWorker("idle", 0, 0, FALSE, "", 0)

\* The worker task ends (a panic in its pipeline aborts the spawned task):
\* queue_rx is dropped, and with it the ids still in the channel.
ReceiverClose ==
  /\ wpc # "closed"
  /\ SetWorker("closed", 0, 0, FALSE, "", 0)
  /\ queue' = <<>>
  /\ UNCHANGED <<edgeVars, toolVars, runpodVars, resp, clk, jobs, buses, files, now, cpc, hb,
                 cancelVars, cleanVars, streamVars, pend>>

\* A faulty variant of the claim section that skips no job.
ClaimSkipsNever(job) == FALSE

\* if matches!(job.status, JobState::Canceled) { return Ok(()); }
ClaimSkips(job) ==
  job.status = "canceled"

\* queue_rx.recv() and the claim section of process_export_job_legacy.
\* A canceled job is skipped; a job without a record or without a request
\* payload is an error (the record is already marked running then).
ClaimedJob(job) ==
  [job EXCEPT !.status = "running", !.progress = P(5), !.stage = "transform",
              !.stage_progress = 0, !.message = "Transforming graph data",
              !.updated_at = now, !.error = "none"]

WorkerClaim ==
  /\ backend_mode = "legacy_vps"
  /\ wpc = "idle"
  /\ WorkerReady
  /\ queue # <<>>
  /\ LET j == Head(queue) IN
       /\ queue' = Tail(queue)
       /\ IF ~JobExists(j)
          THEN /\ SetWorker("rollback", j, 0, FALSE, "", 0)
               /\ UNCHANGED jobs
          ELSE IF ClaimSkips(jobs[j])
          THEN /\ WorkerIdle
               /\ UNCHANGED jobs
          ELSE /\ jobs' = [jobs EXCEPT ![j] = ClaimedJob(@)]
               /\ SetWorker(IF jobs[j].request THEN "started" ELSE "rollback",
                            j, 0, FALSE, "", 0)
  /\ UNCHANGED <<edgeVars, toolVars, runpodVars, resp, clk, buses, files, now, cpc, hb, cancelVars, cleanVars, streamVars, pend>>

\* One append_job_event call of the pipeline, from position `from` to `to`
\* ("idle": the pipeline returns Ok and the worker is back in recv).
WorkerAppend(from, to, type, stage, progress, sp, msg) ==
  /\ wpc = from
  /\ AppendJobEvent("worker", wjob, type, stage, progress, sp, msg)
  /\ IF to = "idle" THEN WorkerIdle
     ELSE SetWorker(to, wjob, written, werr, smsg, wnow)
  /\ UNCHANGED <<edgeVars, toolVars, runpodVars, resp, buses, queue, files, now, cpc, hb, cancelVars, cleanVars,
                 streamVars>>

\* The appends that end either pipeline.
WorkerLastAppends ==
  \/ WorkerAppend("completed", "idle", "job_completed", "download_ready",
                  P(100), P(100), "Export completed")
  \/ WorkerAppend("failed", "idle", "job_failed", "failed", P(100), P(100),
                  "Export failed")

\* The appends of the pipeline up to the start of the capsule write.
WorkerAppendsToWrite ==
  \/ WorkerAppend("started", "mkdir", "job_started", "transform", P(5), 0,
                  "Transforming graph data")
  \/ WorkerAppend("prep0", "prep1", "stage_progress", "frame_prep", P(20), 0,
                  "Preparing frame documents")
  \/ WorkerAppend("prep1", "chk2", "stage_progress", "frame_prep", P(45), P(100),
                  "Prepared frames")
  \/ WorkerAppend("wstart", "wconf", "stage_progress", "write_capsule",
                  WRITE_STAGE_START, 0, "Writing frames to capsule")

WorkerAppends ==
  \/ WorkerAppendsToWrite
  \/ WorkerAppend("wend", "chk3", "stage_progress", "write_capsule",
                  WRITE_STAGE_END, P(100), "Capsule write complete")
  \/ WorkerAppend("sstart", "sidecar", "stage_progress", "build_sidecar",
                  SIDECAR_STAGE_START, 0, "Building sidecar index")
  \/ WorkerAppend("sdone", "chk4", "stage_progress", "build_sidecar",
                  SIDECAR_STAGE_END, P(100), smsg)
  \/ WorkerAppend("fin0", "stat", "stage_progress", "finalize", P(90), P(20),
                  "Finalizing artifact metadata")
  \/ WorkerAppend("fin1", "finalize", "stage_progress", "finalize", P(96), P(70),
                  "Preparing download artifact")
  \/ WorkerLastAppends

\* is_canceled: the status read under the read lock (an unknown job counts as
\* canceled).
is_canceled(j) == jobs[j].status \in {"canceled", "none"}

\* A cancellation checkpoint: on canceled the worker returns Ok, after
\* delete_file_if_exists(&output_path) where the code has one.
WorkerCheck(from, to, del) ==
  /\ wpc = from
  /\ WorkerReady
  /\ IF is_canceled(wjob)
     THEN /\ files' = IF del THEN files \ {wjob} ELSE files
          /\ WorkerIdle
     ELSE /\ wpc' = to
          /\ UNCHANGED <<files, wjob, written, werr, smsg, wnow>>
  /\ UNCHANGED <<edgeVars, toolVars, runpodVars, resp, clk, jobs, buses, queue, now, cpc, hb, cancelVars, cleanVars,
                 streamVars, pend>>

\* ensure_job_dir fails: the error escapes the pipeline.
WorkerMkdirFail ==
  /\ wpc = "mkdir"
  /\ WorkerReady
  /\ wpc' = "rollback"
  /\ UNCHANGED <<edgeVars, toolVars, runpodVars, resp, clk, jobs, buses, queue, files, now, cpc, wjob, written, werr, smsg,
                 wnow, hb, cancelVars, cleanVars, streamVars, pend>>

\* The checkpoints of the pipeline up to the start of the capsule write.
WorkerChecksToWrite ==
  \/ WorkerCheck("mkdir", "prep0", FALSE)
  \/ WorkerCheck("chk2", "wstart", FALSE)

WorkerChecks ==
  \/ WorkerChecksToWrite
  \/ WorkerCheck("chk3", "sstart", TRUE)
  \/ WorkerCheck("chk4", "fin0", TRUE)

\* The write heartbeat is spawned, then the embedding configuration is read
\* (only for a semantic export, where it can fail: the error escapes and the
\* heartbeat task, never told to stop, keeps running).
WorkerWriteSetup ==
  /\ wpc = "wconf"
  /\ WorkerReady
  /\ hb' = [hb EXCEPT ![wjob] = "on"]
  /\ \/ wpc' = "write"
     \/ wpc' = "rollback"
  /\ UNCHANGED <<edgeVars, toolVars, runpodVars, resp, clk, jobs, buses, queue, files, now, cpc, wjob, written, werr, smsg,
                 wnow, cancelVars, cleanVars, streamVars, pend>>

\* write_mv2 on the blocking pool.  Memvid::create makes the file; each put
\* reports progress; any step can fail, and a failure after the create leaves
\* the file behind.
WriteCreate ==
  /\ wpc = "write"
  /\ \/ /\ files' = files \cup {wjob}
        /\ wpc' = "writing"
        /\ UNCHANGED werr
     \/ /\ wpc' = "wjoin"
        /\ werr' = TRUE
        /\ UNCHANGED files
  /\ UNCHANGED <<edgeVars, toolVars, runpodVars, resp, clk, jobs, buses, queue, now, cpc, wjob, written, smsg, wnow, hb,
                 cancelVars, cleanVars, streamVars, pend>>

WritePut ==
  /\ wpc = "writing"
  /\ written < TotalFrames
  /\ written' = written + 1
  /\ UNCHANGED <<edgeVars, toolVars, runpodVars, resp, clk, jobs, buses, queue, files, now, cpc, wpc, wjob, werr, smsg, wnow,
                 hb, cancelVars, cleanVars, streamVars, pend>>

WriteFinish ==
  /\ wpc = "writing"
  /\ \/ /\ written = TotalFrames
        /\ werr' = FALSE
     \/ werr' = TRUE
  /\ wpc' = "wjoin"
  /\ UNCHANGED <<edgeVars, toolVars, runpodVars, resp, clk, jobs, buses, queue, files, now, cpc, wjob, written, smsg, wnow,
                 hb, cancelVars, cleanVars, streamVars, pend>>

\* write_done.store(true); write_heartbeat.await; then the write result: an
\* error escapes the pipeline.
WorkerWriteJoin ==
  /\ wpc = "wjoin"
  /\ WorkerReady
  /\ TaskReady("hb", wjob)
  /\ clk["hb"] = <<>>
  /\ hb' = [hb EXCEPT ![wjob] = "off"]
  /\ wpc' = IF werr THEN "rollback" ELSE "wend"
  /\ written' = 0
  /\ werr' = FALSE
  /\ UNCHANGED <<edgeVars, toolVars, runpodVars, resp, clk, jobs, buses, queue, files, now, cpc, wjob, smsg, wnow,
                 cancelVars, cleanVars, streamVars, pend>>

\* Number of heartbeat events of a stage in the log of job j.
HeartbeatCount(j, stage) ==
  Cardinality({i \in 1..Len(jobs[j].events) :
                 /\ jobs[j].events[i].type = "stage_heartbeat"
                 /\ jobs[j].events[i].stage = stage})

\* One round of the write heartbeat loop of job j (HEARTBEAT_INTERVAL later).
HbStageProgress(j) ==
  Clamp(((IF wjob = j THEN written ELSE 0) * P(100)) \div Max(TotalFrames, 1),
        0, 995000)

HeartbeatRound(j) ==
  /\ hb[j] = "on"
  /\ ~AppendDropped(jobs[j], "stage_heartbeat") \/ clk["hb"] # <<>>
  /\ AppendJobEvent("hb", j, "stage_heartbeat", "write_capsule",
                    lerp_stage_progress(HbStageProgress(j), WRITE_STAGE_START,
                                        WRITE_STAGE_END),
                    HbStageProgress(j), "Writing capsule frames")
  /\ UNCHANGED <<edgeVars, toolVars, runpodVars, resp, buses, queue, files, now, cpc, workerVars, hb, cancelVars,
                 cleanVars, streamVars>>

HeartbeatTick(j) ==
  /\ HeartbeatCount(j, "write_capsule") < MaxHeartbeats
  /\ HeartbeatRound(j)

\* The heartbeat loop of a write that takes long (or whose task was never
\* told to stop): rounds until the job has issued MaxRingSeq seqs.
HeartbeatTickLong(j) ==
  /\ jobs[j].next_seq <= MaxRingSeq
  /\ HeartbeatRound(j)

\* The side-index build: the select loop appends a heartbeat every
\* HEARTBEAT_INTERVAL (2 s) until the build task ends.
SidecarStageProgress(k) == Clamp((P(2 * k) * 75) \div 24, 0, P(75))

SidecarCheckpoint(sp) ==
  IF sp >= P(50) THEN "Persisting sidecar index"
  ELSE IF sp >= P(25) THEN "Deriving hotspot and process indexes"
  ELSE "Parsing capsule metadata"

SidecarHeartbeat ==
  /\ wpc = "sidecar"
  /\ HeartbeatCount(wjob, "build_sidecar") < MaxHeartbeats
  /\ ~AppendDropped(jobs[wjob], "stage_heartbeat")
  /\ LET sp == SidecarStageProgress(HeartbeatCount(wjob, "build_sidecar") + 1) IN
       AppendJobEvent("worker", wjob, "stage_heartbeat", "build_sidecar",
                      lerp_stage_progress(sp, SIDECAR_STAGE_START, SIDECAR_STAGE_END),
                      sp, SidecarCheckpoint(sp))
  /\ UNCHANGED <<edgeVars, toolVars, runpodVars, resp, buses, queue, files, now, cpc, workerVars, hb, cancelVars,
                 cleanVars, streamVars>>

\* The build task ends: Ok(Ok(index)), Ok(Err(_)) or a join error.  None of
\* them is an error of the pipeline.
SidecarMessages ==
  {"Sidecar index ready", "Sidecar index skipped (non-blocking error)",
   "Sidecar index skipped (worker join error)"}

\* A faulty variant in which a failed build is an error of the pipeline.
SidecarDoneFatal(outcomes) ==
  /\ wpc = "sidecar"
  /\ WorkerReady
  /\ \E m \in outcomes :
       /\ smsg' = m
       /\ wpc' = IF m = "Sidecar index ready" THEN "sdone" ELSE "rollback"
  /\ UNCHANGED <<edgeVars, toolVars, runpodVars, resp, clk, jobs, buses, queue, files, now, cpc, wjob, written, werr, wnow,
                 hb, cancelVars, cleanVars, streamVars, pend>>

SidecarDone(outcomes) ==
  /\ wpc = "sidecar"
  /\ WorkerReady
  /\ \E m \in outcomes : smsg' = m
  /\ wpc' = "sdone"
  /\ UNCHANGED <<edgeVars, toolVars, runpodVars, resp, clk, jobs, buses, queue, files, now, cpc, wjob, written, werr, wnow,
                 hb, cancelVars, cleanVars, streamVars, pend>>

\* fs::metadata(&output_path), then `now` for the expiry.
WorkerStat ==
  /\ wpc = "stat"
  /\ WorkerReady
  /\ \/ /\ wjob \in files
        /\ wpc' = "fin1"
        /\ wnow' = now
     \/ /\ wpc' = "rollback"
        /\ UNCHANGED wnow
  /\ UNCHANGED <<edgeVars, toolVars, runpodVars, resp, clk, jobs, buses, queue, files, cpc, now, wjob, written, werr, smsg,
                 hb, cancelVars, cleanVars, streamVars, pend>>

\* The finalize section: under the write lock, a canceled job has its file
\* deleted and the pipeline returns; otherwise the job becomes completed.
CompletedJob(job, t) ==
  [job EXCEPT !.status = "completed", !.progress = P(100),
              !.stage = "download_ready", !.stage_progress = P(100),
              !.message = "Export completed", !.updated_at = t,
              !.artifact = <<[expires_at |-> t + RetentionSeconds]>>,
              !.artifact_path = TRUE, !.error = "none", !.request = FALSE]

WorkerFinalize ==
  /\ wpc = "finalize"
  /\ WorkerReady
  /\ IF ~JobExists(wjob)
     THEN /\ wpc' = "completed"
          /\ UNCHANGED <<jobs, files, wjob, written, werr, smsg, wnow>>
     ELSE IF jobs[wjob].status = "canceled"
     THEN /\ files' = files \ {wjob}
          /\ WorkerIdle
          /\ UNCHANGED jobs
     ELSE /\ jobs' = [jobs EXCEPT ![wjob] = CompletedJob(@, wnow)]
          /\ wpc' = "completed"
          /\ wnow' = 0
          /\ smsg' = ""
          /\ UNCHANGED <<files, wjob, written, werr>>
  /\ UNCHANGED <<edgeVars, toolVars, runpodVars, resp, clk, buses, queue, now, cpc, hb, cancelVars, cleanVars, streamVars, pend>>

\* A faulty variant of the rollback that marks the job failed and leaves its
\* progress and stage where the pipeline stopped.
FailedJobKeepsProgress(job) ==
  [job EXCEPT !.status = "failed", !.error = "EXPORT_FAILED",
              !.message = "Export failed", !.request = FALSE]

\* A faulty variant of the rollback that leaves the job running.
FailedJobStaysRunning(job) ==
  [job EXCEPT !.error = "EXPORT_FAILED", !.message = "Export failed",
              !.updated_at = now, !.request = FALSE]

\* spawn_export_worker, the Err arm: the failure rollback section.
FailedJob(job) ==
  [job EXCEPT !.status = "failed", !.progress = P(100), !.stage = "failed",
              !.stage_progress = P(100), !.updated_at = now,
              !.error = "EXPORT_FAILED",
              !.message = "Export failed", !.request = FALSE]

WorkerRollback ==
  /\ wpc = "rollback"
  /\ WorkerReady
  /\ jobs' = [jobs EXCEPT ![wjob] = IF JobExists(wjob) THEN FailedJob(@) ELSE @]
  /\ wpc' = "failed"
  /\ smsg' = ""
  /\ wnow' = 0
  /\ UNCHANGED <<edgeVars, toolVars, runpodVars, resp, clk, buses, queue, files, now, cpc, wjob, written, werr, hb,
                 cancelVars, cleanVars, streamVars, pend>>

\* ----------------------------------------------------------- cancel_export
\* The section under the write lock: only a queued or running job changes.
became_canceled(job) == job.status \in {"queued", "running"}

\* A faulty variant of the section that cancels a job whatever its status.
CanceledJobAnyStatus(job) ==
  [job EXCEPT !.status = "canceled", !.stage = "canceled",
              !.stage_progress = P(100), !.progress = P(100),
              !.message = "Export canceled", !.error = "none",
              !.request = FALSE, !.artifact = <<>>, !.artifact_path = FALSE]

CanceledJob(job) ==
  IF became_canceled(job)
  THEN [job EXCEPT !.status = "canceled", !.stage = "canceled",
                   !.stage_progress = P(100), !.progress = P(100),
                   !.updated_at = now,
                   !.message = "Export canceled", !.error = "none",
                   !.request = FALSE, !.artifact = <<>>, !.artifact_path = FALSE]
  ELSE job

\* job.to_response(): the fields of the snapshot that the model keeps.
to_response(job) ==
  [code |-> 200, status |-> job.status, progress |-> job.progress,
   stage |-> job.stage, last_event_seq |-> job.next_seq - 1]

NoResponse ==
  [code |-> 0, status |-> "none", progress |-> 0, stage |-> "none",
   last_event_seq |-> 0]

\* DELETE /v1/exports/{j}: the section under the write lock.  A job that
\* became canceled gets its job_canceled event next; for any other job the
\* handler goes straight to its answer.
CancelLock(j) ==
  /\ can_pc = "idle"
  /\ Known(j)
  /\ jobs' = [jobs EXCEPT ![j] = CanceledJob(@)]
  /\ can_pc' = IF became_canceled(jobs[j]) THEN "append" ELSE "finish"
  /\ can_job' = j
  /\ can_del' = (became_canceled(jobs[j]) /\ jobs[j].artifact_path)
  /\ can_resp' = to_response(CanceledJob(jobs[j]))
  /\ UNCHANGED <<edgeVars, toolVars, runpodVars, resp, clk, buses, queue, files, now, cpc, workerVars, hb, cleanVars,
                 streamVars, pend>>

CancelAppend ==
  /\ can_pc = "append"
  /\ AppendJobEvent("cancel", can_job, "job_canceled", "canceled", P(100), P(100),
                    "Export canceled")
  /\ can_pc' = "finish"
  /\ UNCHANGED <<edgeVars, toolVars, runpodVars, resp, buses, queue, files, now, cpc, workerVars, hb, can_job, can_del,
                 can_resp, cleanVars, streamVars>>

\* delete_file_if_exists(artifact_to_delete), then the 200 answer is sent
\* and the handler's locals are gone.
CancelFinish ==
  /\ can_pc = "finish"
  /\ pend["cancel"] = <<>>
  /\ files' = IF can_del THEN files \ {can_job} ELSE files
  /\ can_pc' = "idle"
  /\ can_job' = 0
  /\ can_del' = FALSE
  /\ can_resp' = NoResponse
  /\ UNCHANGED <<edgeVars, toolVars, runpodVars, resp, clk, jobs, buses, queue, now, cpc, workerVars, hb, cleanVars,
                 streamVars, pend>>

\* ------------------------------------------------ cleanup_expired_artifacts
\* A faulty variant of the due test that ignores the expiry time.
DueWhenCompleted(j) ==
  /\ jobs[j].status = "completed"
  /\ jobs[j].artifact # <<>>

Due(j) ==
  /\ jobs[j].status = "completed"
  /\ jobs[j].artifact # <<>>
  /\ jobs[j].artifact[1].expires_at <= now

\* A faulty variant of the expiry that clears the descriptor and keeps the
\* artifact path.
ExpiredJobKeepsPath(job) ==
  [job EXCEPT !.status = "expired", !.progress = P(100), !.stage = "expired",
              !.stage_progress = P(100),
              !.message = "Artifact expired and removed",
              !.updated_at = now, !.last_event_at = now,
              !.artifact = <<>>,
              !.events = <<>>, !.next_seq = 1]

ExpiredJob(job) ==
  [job EXCEPT !.status = "expired", !.progress = P(100), !.stage = "expired",
              !.stage_progress = P(100),
              !.message = "Artifact expired and removed",
              !.updated_at = now, !.last_event_at = now,
              !.artifact = <<>>, !.artifact_path = FALSE,
              !.events = <<>>, !.next_seq = 1]

\* The section under the write lock (a run that finds no due job changes
\* nothing and is left out).
CleanupLock ==
  /\ cl_pc = "idle"
  /\ \E j \in JobIds : Due(j)
  /\ jobs' = [j \in JobIds |-> IF Due(j) THEN ExpiredJob(jobs[j]) ELSE jobs[j]]
  /\ cl_files' = {j \in JobIds : Due(j) /\ jobs[j].artifact_path}
  /\ cl_ids' = {j \in JobIds : Due(j)}
  /\ cl_pc' = "delete"
  /\ UNCHANGED <<edgeVars, toolVars, runpodVars, resp, clk, buses, queue, files, now, cpc, workerVars, hb, cancelVars,
                 streamVars, pend>>

CleanupDelete ==
  /\ cl_pc = "delete"
  /\ files' = files \ cl_files
  /\ cl_files' = {}
  /\ cl_pc' = "buses"
  /\ UNCHANGED <<edgeVars, toolVars, runpodVars, resp, clk, jobs, buses, queue, now, cpc, workerVars, hb, cancelVars, cl_ids,
                 streamVars, pend>>

\* The senders of the expired jobs are dropped: their receivers see Closed.
CleanupBuses ==
  /\ cl_pc = "buses"
  /\ buses' = buses \ cl_ids
  /\ st_pc' = IF st_pc = "live" /\ st_job \in cl_ids THEN "closed" ELSE st_pc
  /\ cl_ids' = {}
  /\ cl_pc' = "idle"
  /\ UNCHANGED <<edgeVars, toolVars, runpodVars, resp, clk, jobs, queue, files, now, cpc, workerVars, hb, cancelVars,
                 cl_files, st_job, st_since, st_replay, st_recv, pend>>

Tick ==
  /\ now < MaxNow
  /\ now' = now + 1
  /\ UNCHANGED <<edgeVars, toolVars, runpodVars, resp, clk, jobs, buses, queue, files, cpc, workerVars, hb, cancelVars,
                 cleanVars, streamVars, pend>>

\* ------------------------------------------- get_export_events, download
\* A faulty variant that takes the caller's limit as it is.
EffectiveLimitUnclamped(limit) ==
  IF limit = <<>> THEN EVENTS_DEFAULT_LIMIT ELSE limit[1]

\* params.limit.unwrap_or(EVENTS_DEFAULT_LIMIT).clamp(1, EVENTS_MAX_LIMIT);
\* an absent limit is <<>>.
EffectiveLimit(limit) ==
  Clamp(IF limit = <<>> THEN EVENTS_DEFAULT_LIMIT ELSE limit[1], 1, EVENTS_MAX_LIMIT)

\* The loop over job.events: the events with seq > since_seq, in the order
\* of the log, until `limit` of them are collected.
RECURSIVE TakeAfter(_, _, _)
TakeAfter(evs, since, limit) ==
  IF evs = <<>> \/ limit = 0 THEN <<>>
  ELSE IF Head(evs).seq > since
       THEN <<Head(evs)>> \o TakeAfter(Tail(evs), since, limit - 1)
       ELSE TakeAfter(Tail(evs), since, limit)

\* A faulty variant of the fetch that serves the log of an expired job.
get_export_events_of_expired(j, since, limit) ==
  IF ~JobExists(j)
  THEN [NoRequest EXCEPT !.kind = "events", !.job = j, !.code = 404,
                         !.error = "JOB_NOT_FOUND", !.since = since, !.limit = limit]
  ELSE [NoRequest EXCEPT !.kind = "events", !.job = j, !.code = 200,
                         !.events = TakeAfter(jobs[j].events, since, EffectiveLimit(limit)),
                         !.next_seq = jobs[j].next_seq,
                         !.since = since, !.limit = limit]

\* GET /v1/exports/{j}/events: one section under the read lock.
get_export_events(j, since, limit) ==
  IF ~JobExists(j)
  THEN [NoRequest EXCEPT !.kind = "events", !.job = j, !.code = 404,
                         !.error = "JOB_NOT_FOUND", !.since = since, !.limit = limit]
  ELSE IF jobs[j].status = "expired"
  THEN [NoRequest EXCEPT !.kind = "events", !.job = j, !.code = 410,
                         !.error = "JOB_EXPIRED", !.since = since, !.limit = limit]
  ELSE [NoRequest EXCEPT !.kind = "events", !.job = j, !.code = 200,
                         !.events = TakeAfter(jobs[j].events, since, EffectiveLimit(limit)),
                         !.next_seq = jobs[j].next_seq,
                         !.since = since, !.limit = limit]

EventsFetch(j, since, limit) ==
  /\ resp = NoRequest
  /\ Known(j)
  /\ resp' = get_export_events(j, since, limit)
  /\ UNCHANGED <<edgeVars, toolVars, runpodVars, jobs, buses, queue, files, now, cpc, workerVars, hb,
                 cancelVars, cleanVars, streamVars, pend, clk>>

\* GET /v1/exports/{j}/download: the section under the read lock; code 0
\* is a request that goes on to read the file.
DownloadLocked(j) ==
  IF ~JobExists(j)
  THEN [NoRequest EXCEPT !.kind = "download", !.job = j, !.code = 404,
                         !.error = "JOB_NOT_FOUND"]
  ELSE IF jobs[j].status # "completed"
  THEN [NoRequest EXCEPT !.kind = "download", !.job = j, !.code = 409,
                         !.error = "ARTIFACT_NOT_READY"]
  ELSE IF ~jobs[j].artifact_path
  THEN [NoRequest EXCEPT !.kind = "download", !.job = j, !.code = 410,
                         !.error = "ARTIFACT_MISSING"]
  ELSE [NoRequest EXCEPT !.kind = "download", !.job = j]

DownloadOpen(j) ==
  /\ resp = NoRequest
  /\ Known(j)
  /\ resp' = DownloadLocked(j)
  /\ UNCHANGED <<edgeVars, toolVars, runpodVars, jobs, buses, queue, files, now, cpc, workerVars, hb,
                 cancelVars, cleanVars, streamVars, pend, clk>>

\* fs::read(&path): the file's bytes, or 410 when the file is not there.
DownloadRead ==
  /\ resp.kind = "download"
  /\ resp.code = 0
  /\ resp' = IF resp.job \in files
             THEN [resp EXCEPT !.code = 200]
             ELSE [resp EXCEPT !.code = 410, !.error = "ARTIFACT_MISSING"]
  /\ UNCHANGED <<edgeVars, toolVars, runpodVars, jobs, buses, queue, files, now, cpc, workerVars, hb,
                 cancelVars, cleanVars, streamVars, pend, clk>>

\* The answer is sent and the handler's locals are gone.
ReadAnswer ==
  /\ resp.code # 0
  /\ resp' = NoRequest
  /\ UNCHANGED <<edgeVars, toolVars, runpodVars, jobs, buses, queue, files, now, cpc, workerVars, hb,
                 cancelVars, cleanVars, streamVars, pend, clk>>

\* --------------------------------------------- the clock of an append call
\* Task t is at a call of append_job_event.
AtAppend(t) ==
  CASE t = "create" -> \E j \in JobIds : cpc[j] = "append"
    [] t = "worker" -> wpc \in {"started", "prep0", "prep1", "wstart", "wend", "sstart",
                                "sdone", "fin0", "fin1", "completed", "failed"}
    [] t = "hb" -> \E j \in JobIds :
                     hb[j] = "on" /\ HeartbeatCount(j, "write_capsule") < MaxHeartbeats
    [] t = "cancel" -> can_pc = "append"

\* The call reads the clock and then waits for the registry lock.  (A read
\* at the last tick is the same as one taken with the section.)
ReadClock(t) ==
  /\ AtAppend(t)
  /\ clk[t] = <<>>
  /\ now < MaxNow
  /\ clk' = [clk EXCEPT ![t] = <<now>>]
  /\ UNCHANGED <<edgeVars, toolVars, runpodVars, resp, jobs, buses, queue, files, now, cpc, workerVars, hb, cancelVars,
                 cleanVars, streamVars, pend>>

\* ---------------------------------------------------- stream_export_events
RECURSIVE SeqsAfter(_, _)
SeqsAfter(evs, since) ==
  IF evs = <<>> THEN <<>>
  ELSE IF Head(evs).seq > since
       THEN <<Head(evs).seq>> \o SeqsAfter(Tail(evs), since)
       ELSE SeqsAfter(Tail(evs), since)

\* The history read under the read lock: 410 JOB_EXPIRED ("gone") for an
\* expired job.
StreamOpen(since) ==
  /\ st_pc = "idle"
  /\ Known(st_job)
  /\ since < jobs[st_job].next_seq
  /\ st_since' = since
  /\ IF jobs[st_job].status = "expired"
     THEN /\ st_pc' = "gone"
          /\ UNCHANGED st_replay
     ELSE /\ st_pc' = "history"
          /\ st_replay' = SeqsAfter(jobs[st_job].events, since)
  /\ UNCHANGED <<edgeVars, toolVars, runpodVars, resp, clk, jobs, buses, queue, files, now, cpc, workerVars, hb, cancelVars,
                 cleanVars, st_job, st_recv, pend>>

\* The subscribe under the bus map's read lock (404 EVENT_STREAM_NOT_FOUND,
\* "notfound", without a bus); the spawned task sends the replay first, then
\* what the receiver yields.
StreamSubscribe ==
  /\ st_pc = "history"
  /\ IF st_job \in buses
     THEN /\ st_pc' = "live"
          /\ st_recv' = st_replay
     ELSE /\ st_pc' = "notfound"
          /\ UNCHANGED st_recv
  /\ st_replay' = <<>>
  /\ UNCHANGED <<edgeVars, toolVars, runpodVars, resp, clk, jobs, buses, queue, files, now, cpc, workerVars, hb, cancelVars,
                 cleanVars, st_job, st_since, pend>>

\* ------------------------------------------------------------ RateLimiter
\* Token counts are f64 in the code.  Here they are integers in units of
\* 1/60000 token, the amount one millisecond restores at one request per
\* minute, so that every refill is exact.
TokenUnit == 60000

API_KEY == <<"k">>
OtherKey == <<"x">>
LimiterKeys == {API_KEY, OtherKey}

\* RateLimiter::new(per_minute, burst)
NewLimiter(per_minute, burst) ==
  [per_minute |-> Max(per_minute, 1), burst |-> Max(burst, 1)]

\* let capacity = f64::from(self.burst.max(self.per_minute));
Capacity == Max(limiter.burst, limiter.per_minute) * TokenUnit

NoDecision == [allowed |-> FALSE, limit |-> 0, remaining |-> 0, reset_seconds |-> 0]

CeilDiv(a, b) == (a + b - 1) \div b

\* entry(key).or_insert(BucketState { tokens: capacity, last_refill: now })
BucketEntry(key) ==
  IF buckets[key] = <<>> THEN [tokens |-> Capacity, last_refill |-> inst]
  ELSE buckets[key][1]

\* The refill: elapsed * refill_per_sec restored, capped at capacity.
Refilled(key) ==
  LET b == BucketEntry(key)
      elapsed == inst - b.last_refill
  IN IF elapsed > 0
     THEN [tokens |-> Min(b.tokens + elapsed * limiter.per_minute, Capacity),
           last_refill |-> inst]
     ELSE b

\* A faulty variant of the bucket update that takes a token also when the
\* check is rejected.
BucketAfterAlwaysTakes(key) ==
  [Refilled(key) EXCEPT !.tokens = @ - TokenUnit]

\* The bucket after the check: one token less when the check is allowed.
BucketAfter(key) ==
  LET b == Refilled(key) IN
    IF b.tokens >= TokenUnit THEN [b EXCEPT !.tokens = @ - TokenUnit] ELSE b

\* The decision of RateLimiter::check(key).
Decision(key) ==
  LET allowed == Refilled(key).tokens >= TokenUnit
      tokens == BucketAfter(key).tokens
      deficit == Max(TokenUnit - tokens, 0)
  IN [allowed |-> allowed,
      limit |-> limiter.per_minute,
      remaining |-> Max(tokens \div TokenUnit, 0),
      reset_seconds |-> IF deficit <= 0 THEN 0
                        ELSE CeilDiv(deficit, 1000 * limiter.per_minute)]

\* RateLimiter::check(key): one section under the buckets mutex.
check(key) ==
  /\ rate' = Decision(key)
  /\ buckets' = [buckets EXCEPT ![key] = <<BucketAfter(key)>>]

RateCheck(key) ==
  /\ check(key)
  /\ UNCHANGED <<exportVars, toolVars, limiter, inst, mcp_resp, auth, cacheVars, pageVars>>

\* Time passes on the monotonic clock.
InstSteps == {250, 1000}

InstTick ==
  /\ \E d \in InstSteps :
       /\ inst + d <= MaxInst
       /\ inst' = inst + d
  /\ UNCHANGED <<exportVars, toolVars, limiter, buckets, rate, mcp_resp, auth, cacheVars, pageVars>>

\* ---------------------------------------------------------- verify_bearer
\* Strings are sequences of characters.  A header is <<>> when the request
\* has none and <<value>> otherwise.
BearerPrefix == <<"B", "e", "a", "r", "e", "r", " ">>

Bearer(token) == <<BearerPrefix \o token>>

\* value.strip_prefix(prefix): <<rest>>, or <<>> for None.
StripPrefix(value, prefix) ==
  IF Len(value) >= Len(prefix) /\ SubSeq(value, 1, Len(prefix)) = prefix
  THEN <<SubSeq(value, Len(prefix) + 1, Len(value))>>
  ELSE <<>>

\* str::trim: without its leading and trailing white space.
RECURSIVE TrimStart(_)
TrimStart(str) ==
  IF str # <<>> /\ Head(str) = " " THEN TrimStart(Tail(str)) ELSE str

RECURSIVE TrimEnd(_)
TrimEnd(str) ==
  IF str # <<>> /\ str[Len(str)] = " " THEN TrimEnd(SubSeq(str, 1, Len(str) - 1))
  ELSE str

Trim(str) == TrimEnd(TrimStart(str))

\* extract_bearer_token: <<token>>, or <<>> for the 401 answer.
extract_bearer_token(header) ==
  IF header = <<>> THEN <<>> ELSE StripPrefix(header[1], BearerPrefix)

\* verify_bearer(headers, expected_key) is Ok.
verify_bearer(header, expected_key) ==
  /\ extract_bearer_token(header) # <<>>
  /\ Trim(extract_bearer_token(header)[1]) = expected_key

\* The Authorization headers the clients send.
AuthHeaders ==
  {<<>>, Bearer(API_KEY), Bearer(<<" ">> \o API_KEY), Bearer(OtherKey),
   Bearer(<<>>), <<<<"B", "a", "s", "i", "c", " ">> \o API_KEY>>}

ExportRoutes == {"create", "get", "cancel", "events", "stream", "download"}

NoAuth == [route |-> "", header |-> <<>>, code |-> 0, error |-> ""]

\* The first statement of every export handler: verify_bearer, and the 401
\* answer when it fails (code 0: the handler goes on).
AuthGate(route, header) ==
  /\ auth' = IF verify_bearer(header, API_KEY)
             THEN [route |-> route, header |-> header, code |-> 0, error |-> ""]
             ELSE [route |-> route, header |-> header, code |-> 401,
                   error |-> "UNAUTHORIZED"]
  /\ UNCHANGED <<exportVars, toolVars, limiterVars, mcp_resp, cacheVars, pageVars>>

\* ------------------------------------------------------------- QueryCache
CacheKeys == {"a", "b", "c"}
CacheValues == {1, 2}

\* QueryCache::with_capacity(capacity); values maps a key to <<>> (absent)
\* or <<value>>.
with_capacity(capacity) ==
  [capacity |-> Max(capacity, 1), order |-> <<>>,
   values |-> [k \in CacheKeys |-> <<>>]]

\* self.values.len()
CacheSize(c) == Cardinality({k \in CacheKeys : c.values[k] # <<>>})

\* self.order.iter().position(|k| k == key): 0 for None.
CachePosition(order, key) ==
  IF \E i \in 1..Len(order) : order[i] = key
  THEN CHOOSE i \in 1..Len(order) :
         order[i] = key /\ \A k \in 1..(i - 1) : order[k] # key
  ELSE 0

RemoveAt(seq, pos) == SubSeq(seq, 1, pos - 1) \o SubSeq(seq, pos + 1, Len(seq))

\* QueryCache::touch
touch(c, key) ==
  LET pos == CachePosition(c.order, key) IN
    IF pos = 0 THEN c
    ELSE [c EXCEPT !.order = Append(RemoveAt(c.order, pos), key)]

\* A faulty variant of the trim that never evicts.
trim_never(c) == c

\* QueryCache::trim
RECURSIVE trim(_)
trim(c) ==
  IF CacheSize(c) > c.capacity /\ c.order # <<>>
  THEN trim([c EXCEPT !.order = Tail(c.order),
                      !.values = [@ EXCEPT ![Head(c.order)] = <<>>]])
  ELSE c

\* A faulty variant of get that does not promote the key.
cache_get_no_touch(c, key) == c

\* QueryCache::get: the cache after the call (the result is c.values[key]).
cache_get(c, key) ==
  IF c.values[key] # <<>> THEN touch(c, key) ELSE c

\* QueryCache::set
cache_set(c, key, value) ==
  IF c.values[key] # <<>>
  THEN touch([c EXCEPT !.values = [@ EXCEPT ![key] = <<value>>]], key)
  ELSE trim([c EXCEPT !.values = [@ EXCEPT ![key] = <<value>>],
                      !.order = Append(@, key)])

CacheGet(key) ==
  /\ Len(cache_ops) < MaxCacheOps
  /\ got' = cache.values[key]
  /\ cache' = cache_get(cache, key)
  /\ cache_ops' = Append(cache_ops, [op |-> "get", key |-> key, value |-> 0])
  /\ UNCHANGED <<exportVars, toolVars, limiterVars, mcp_resp, auth, pageVars>>

CacheSet(key, value) ==
  /\ Len(cache_ops) < MaxCacheOps
  /\ cache' = cache_set(cache, key, value)
  /\ cache_ops' = Append(cache_ops, [op |-> "set", key |-> key, value |-> value])
  /\ UNCHANGED <<exportVars, toolVars, limiterVars, mcp_resp, auth, got, pageVars>>

\* ------------------------------------------------- cursors and pagination
\* Scores are f64 in the code.  Here they are non-negative integers in units
\* of 1e-7, so 9123454 is 0.9123454; a score whose seventh decimal is 5 is
\* left out, because the side to which `{:.6}` rounds it depends on its
\* binary expansion.  Keys and cursors are sequences of characters.
Digits == <<"0", "1", "2", "3", "4", "5", "6", "7", "8", "9">>

RECURSIVE FormatNat(_)
FormatNat(n) ==
  IF n < 10 THEN <<Digits[n + 1]>>
  ELSE FormatNat(n \div 10) \o <<Digits[(n % 10) + 1]>>

RECURSIVE FormatFixed(_, _)
FormatFixed(n, width) ==
  IF width = 0 THEN <<>>
  ELSE FormatFixed(n \div 10, width - 1) \o <<Digits[(n % 10) + 1]>>

\* format!("{score:.6}"): the score rounded to six decimals.
FormatScore(score) ==
  LET micro == (score + 5) \div 10 IN
    FormatNat(micro \div 1000000) \o <<".">> \o FormatFixed(micro % 1000000, 6)

\* encode_cursor
encode_cursor(score, key) == FormatScore(score) \o <<":", ":">> \o key

DigitValue(c) == CHOOSE d \in 0..9 : Digits[d + 1] = c

IsDigits(str) ==
  /\ str # <<>>
  /\ \A i \in 1..Len(str) : \E d \in 0..9 : Digits[d + 1] = str[i]

RECURSIVE ParseNat(_)
ParseNat(str) ==
  IF str = <<>> THEN 0
  ELSE ParseNat(SubSeq(str, 1, Len(str) - 1)) * 10 + DigitValue(str[Len(str)])

RECURSIVE Pow10(_)
Pow10(n) == IF n = 0 THEN 1 ELSE 10 * Pow10(n - 1)

\* str.parse::<f64>() for a decimal numeral with at most seven decimals:
\* <<value>>, or <<>> for Err (which it is for any text with a ':').
ParseScore(str) ==
  IF IsDigits(str) THEN <<ParseNat(str) * 10000000>>
  ELSE IF \E i \in 2..(Len(str) - 1) :
            /\ str[i] = "."
            /\ IsDigits(SubSeq(str, 1, i - 1))
            /\ IsDigits(SubSeq(str, i + 1, Len(str)))
            /\ Len(str) - i <= 7
  THEN LET i == CHOOSE i \in 2..(Len(str) - 1) : str[i] = "."
       IN <<ParseNat(SubSeq(str, 1, i - 1)) * 10000000
            + ParseNat(SubSeq(str, i + 1, Len(str))) * Pow10(7 - (Len(str) - i))>>
  ELSE <<>>

\* A faulty variant that splits at the last "::".
SplitIndexLast(str) ==
  IF \E i \in 1..(Len(str) - 1) : str[i] = ":" /\ str[i + 1] = ":"
  THEN CHOOSE i \in 1..(Len(str) - 1) :
         /\ str[i] = ":" /\ str[i + 1] = ":"
         /\ \A k \in (i + 1)..(Len(str) - 1) : ~(str[k] = ":" /\ str[k + 1] = ":")
  ELSE 0

\* cursor.split_once("::"): the index of the first "::", 0 for None.
SplitIndex(str) ==
  IF \E i \in 1..(Len(str) - 1) : str[i] = ":" /\ str[i + 1] = ":"
  THEN CHOOSE i \in 1..(Len(str) - 1) :
         /\ str[i] = ":" /\ str[i + 1] = ":"
         /\ \A k \in 1..(i - 1) : ~(str[k] = ":" /\ str[k + 1] = ":")
  ELSE 0

\* decode_cursor: <<[score, key]>>, or <<>> for None.
decode_cursor(str) ==
  LET i == SplitIndex(str) IN
    IF i = 0 THEN <<>>
    ELSE LET score == ParseScore(SubSeq(str, 1, i - 1)) IN
           IF score = <<>> THEN <<>>
           ELSE <<[score |-> score[1], key |-> SubSeq(str, i + 2, Len(str))]>>

\* The order of the characters the keys are made of (their ASCII codes).
CharCode(c) == IF c = ":" THEN 58 ELSE IF c = "a" THEN 97 ELSE 98

\* a.key.cmp(&b.key) is Less.
RECURSIVE KeyLess(_, _)
KeyLess(a, b) ==
  IF b = <<>> THEN FALSE
  ELSE IF a = <<>> THEN TRUE
  ELSE IF CharCode(Head(a)) # CharCode(Head(b))
       THEN CharCode(Head(a)) < CharCode(Head(b))
       ELSE KeyLess(Tail(a), Tail(b))

\* compare_ranked(a, b) is Less: a has the higher score, or the same score
\* and the smaller key.
RankedBefore(a, b) ==
  \/ a.score > b.score
  \/ a.score = b.score /\ KeyLess(a.key, b.key)

\* rows.sort_by(compare_ranked)
RECURSIVE SortRanked(_)
SortRanked(set) ==
  IF set = {} THEN <<>>
  ELSE LET first == CHOOSE r \in set : \A o \in set \ {r} : RankedBefore(r, o)
       IN <<first>> \o SortRanked(set \ {first})

\* rows.iter().position(..).unwrap_or(rows.len()), as a 0-based index; with
\* scores in units of 1e-7, (row.score - cursor_score).abs() < 1e-9 is
\* equality.
CursorStart(sorted, c) ==
  LET After(row) ==
        \/ row.score < c.score
        \/ row.score = c.score /\ KeyLess(c.key, row.key)
  IN IF \E i \in 1..Len(sorted) : After(sorted[i])
     THEN (CHOOSE i \in 1..Len(sorted) :
             After(sorted[i]) /\ \A k \in 1..(i - 1) : ~After(sorted[k])) - 1
     ELSE Len(sorted)

\* paginate_ranked(rows, limit, cursor) for limit >= 1.
paginate_ranked(rs, limit, c) ==
  LET sorted == SortRanked(rs)
      start_idx == IF c = <<>> THEN 0
                   ELSE IF decode_cursor(c[1]) = <<>> THEN 0
                   ELSE CursorStart(sorted, decode_cursor(c[1])[1])
      end_idx == Min(start_idx + limit, Len(sorted))
  IN [items |-> SubSeq(sorted, start_idx + 1, end_idx),
      next_cursor |-> IF end_idx < Len(sorted)
                      THEN <<encode_cursor(sorted[end_idx].score, sorted[end_idx].key)>>
                      ELSE <<>>,
      truncated |-> end_idx < Len(sorted)]

\* The client has no further page to ask for.
PagesDone == pages # <<>> /\ pages[Len(pages)].next_cursor = <<>>

\* The client asks for the next page with the cursor it was given.
NextPage ==
  /\ ~PagesDone
  /\ Len(pages) < MaxPages
  /\ pages' = Append(pages, paginate_ranked(rows, page_limit, cursor))
  /\ cursor' = paginate_ranked(rows, page_limit, cursor).next_cursor
  /\ UNCHANGED <<exportVars, toolVars, limiterVars, mcp_resp, auth, cacheVars, rows,
                 page_limit, cur>>

NoCursor == [score |-> 0, key |-> <<>>, encoded |-> <<>>, decoded |-> <<>>]

\* A cursor is encoded and decoded again.
CursorRoundTrip(score, key) ==
  /\ cur' = [score |-> score, key |-> key, encoded |-> encode_cursor(score, key),
             decoded |-> decode_cursor(encode_cursor(score, key))]
  /\ UNCHANGED <<exportVars, toolVars, limiterVars, mcp_resp, auth, cacheVars, rows,
                 page_limit, cursor, pages>>

InitPage(rs, limit) ==
  /\ rows = rs
  /\ page_limit = limit
  /\ cursor = <<>>
  /\ pages = <<>>
  /\ cur = NoCursor

\* ------------------------------------------------------------- POST /mcp
NoMcpResponse ==
  [jsonrpc |-> "", header |-> <<>>, code |-> 0, error |-> "", remaining |-> 0,
   retry_after_ms |-> 0]

McpAnswer(jsonrpc, header, code, error, remaining, retry_after_ms) ==
  [jsonrpc |-> jsonrpc, header |-> header, code |-> code, error |-> error,
   remaining |-> remaining, retry_after_ms |-> retry_after_ms]

\* POST /mcp with method ping: the jsonrpc test, the bearer token, the rate
\* limit, the answer.
mcp(jsonrpc, header) ==
  IF jsonrpc # "2.0"
  THEN /\ mcp_resp' = McpAnswer(jsonrpc, header, 400, "INVALID_ARGUMENT", 0, 0)
       /\ UNCHANGED <<buckets, rate>>
  ELSE IF extract_bearer_token(header) = <<>>
          \/ Trim(extract_bearer_token(header)[1]) # API_KEY
  THEN /\ mcp_resp' = McpAnswer(jsonrpc, header, 401, "UNAUTHORIZED", 0, 0)
       /\ UNCHANGED <<buckets, rate>>
  ELSE /\ check(Trim(extract_bearer_token(header)[1]))
       /\ mcp_resp' =
            IF rate'.allowed
            THEN McpAnswer(jsonrpc, header, 200, "", rate'.remaining, 0)
            ELSE McpAnswer(jsonrpc, header, 429, "RATE_LIMITED", rate'.remaining,
                           rate'.reset_seconds * 1000)

Mcp(jsonrpc, header) ==
  /\ mcp(jsonrpc, header)
  /\ UNCHANGED <<exportVars, toolVars, limiter, inst, auth, cacheVars, pageVars>>

\* ------------------------------------------------- worker, Runpod backend
\* spawn_export_worker with backend_mode RunpodQueue runs
\* process_export_job_runpod for each queued job id.
RunpodStatuses ==
  {"IN_QUEUE", "IN_PROGRESS", "COMPLETED", "CANCELLED", "FAILED", "TIMED_OUT"}

RunpodPending == {"IN_QUEUE", "IN_PROGRESS"}

\* The claim section of process_export_job_runpod.
RunpodClaimedJob(job) ==
  [job EXCEPT !.status = "running", !.progress = P(2), !.stage = "transform",
              !.stage_progress = 0,
              !.message = "Preparing staged payload for Runpod",
              !.updated_at = now, !.error = "none"]

RunpodClaim ==
  /\ backend_mode = "runpod_queue"
  /\ wpc = "idle"
  /\ WorkerReady
  /\ queue # <<>>
  /\ LET j == Head(queue) IN
       /\ queue' = Tail(queue)
       /\ IF ~JobExists(j)
          THEN /\ SetWorker("rollback", j, 0, FALSE, "", 0)
               /\ UNCHANGED jobs
          ELSE IF ClaimSkips(jobs[j])
          THEN /\ WorkerIdle
               /\ UNCHANGED jobs
          ELSE /\ jobs' = [jobs EXCEPT ![j] = RunpodClaimedJob(@)]
               /\ SetWorker(IF jobs[j].request THEN "rp_started" ELSE "rollback",
                            j, 0, FALSE, "", 0)
  /\ UNCHANGED <<edgeVars, toolVars, runpodVars, resp, clk, buses, files, now, cpc, hb,
                 cancelVars, cleanVars, streamVars, pend>>

\* The append_job_event calls before the polling loop.
RunpodAppends ==
  \/ WorkerAppend("rp_started", "rp_stage", "job_started", "transform", P(2), 0,
                  "Preparing staged payload for Runpod")
  \/ WorkerAppend("rp_submitting", "rp_submit", "stage_progress",
                  "write_capsule", P(8), 0, "Submitting Runpod queue job")
  \/ WorkerAppend("rp_submitted", "rp_loop", "stage_progress", "write_capsule",
                  P(12), P(5), "Runpod job submitted")

\* A step of the pipeline that touches no shared state and either goes on to
\* `to` or fails with an error that escapes the pipeline.
RunpodFallible(from, to) ==
  /\ wpc = from
  /\ WorkerReady
  /\ \E ok \in BOOLEAN : wpc' = IF ok THEN to ELSE "rollback"
  /\ UNCHANGED <<edgeVars, toolVars, runpodVars, resp, clk, jobs, buses, queue, files, now,
                 cpc, wjob, written, werr, smsg, wnow, hb, cancelVars,
                 cleanVars, streamVars, pend>>

\* stage_request_payload.
RunpodStage == RunpodFallible("rp_stage", "rp_section")

\* The section that records the payload reference and drops the request,
\* then runpod_client_from_state (an error without its configuration).
RunpodSection ==
  /\ wpc = "rp_section"
  /\ WorkerReady
  /\ jobs' = [jobs EXCEPT ![wjob] = IF JobExists(wjob)
                                    THEN [@ EXCEPT !.request = FALSE,
                                                   !.updated_at = now]
                                    ELSE @]
  /\ \E ok \in BOOLEAN : wpc' = IF ok THEN "rp_submitting" ELSE "rollback"
  /\ UNCHANGED <<edgeVars, toolVars, runpodVars, resp, clk, buses, queue, files, now, cpc,
                 wjob, written, werr, smsg, wnow, hb, cancelVars, cleanVars,
                 streamVars, pend>>

\* client.submit_job: the request carries the policy (executionTimeout,
\* ttl); the endpoint queues the job, or the call fails.
RunpodSubmit ==
  /\ wpc = "rp_submit"
  /\ WorkerReady
  /\ \E ok \in BOOLEAN :
       /\ wpc' = IF ok THEN "rp_record" ELSE "rollback"
       /\ remote' = IF ok THEN "IN_QUEUE" ELSE remote
  /\ UNCHANGED <<edgeVars, toolVars, backend_mode, last_status, rstatus, resp, clk, jobs, buses, queue,
                 files, now, cpc, wjob, written, werr, smsg, wnow, hb,
                 cancelVars, cleanVars, streamVars, pend>>

\* The section that records runpod_job_id.
RunpodRecord ==
  /\ wpc = "rp_record"
  /\ WorkerReady
  /\ jobs' = [jobs EXCEPT ![wjob] = IF JobExists(wjob)
                                    THEN [@ EXCEPT
                                            !.message = "Runpod job submitted",
                                            !.updated_at = now]
                                    ELSE @]
  /\ wpc' = "rp_submitted"
  /\ UNCHANGED <<edgeVars, toolVars, runpodVars, resp, clk, buses, queue, files, now, cpc,
                 wjob, written, werr, smsg, wnow, hb, cancelVars, cleanVars,
                 streamVars, pend>>

\* let mut last_status = String::new();
RunpodLoop ==
  /\ wpc = "rp_loop"
  /\ WorkerReady
  /\ last_status' = ""
  /\ rstatus' = ""
  /\ wpc' = "rp_poll"
  /\ UNCHANGED <<edgeVars, toolVars, backend_mode, remote, resp, clk, jobs, buses, queue, files, now,
                 cpc, wjob, written, werr, smsg, wnow, hb, cancelVars,
                 cleanVars, streamVars, pend>>

\* The head of the loop: on a canceled job client.cancel_job (its failure is
\* ignored) and return Ok; otherwise on to get_status.  The loop has no
\* other exit than this one and those of RunpodMatch.
RunpodPoll ==
  /\ wpc = "rp_poll"
  /\ WorkerReady
  /\ IF is_canceled(wjob)
     THEN /\ \E r \in IF remote \in RunpodPending
                      THEN {remote, "CANCELLED"} ELSE {remote} : remote' = r
          /\ WorkerIdle
     ELSE /\ wpc' = "rp_status"
          /\ UNCHANGED <<remote, wjob, written, werr, smsg, wnow>>
  /\ UNCHANGED <<edgeVars, toolVars, backend_mode, last_status, rstatus, resp, clk, jobs, buses, queue,
                 files, now, cpc, hb, cancelVars, cleanVars, streamVars, pend>>

\* client.get_status(..).await?
RunpodGetStatus ==
  /\ wpc = "rp_status"
  /\ WorkerReady
  /\ \E ok \in BOOLEAN :
       /\ wpc' = IF ok THEN "rp_report" ELSE "rollback"
       /\ rstatus' = IF ok THEN remote ELSE rstatus
  /\ UNCHANGED <<edgeVars, toolVars, backend_mode, remote, last_status, resp, clk, jobs, buses, queue,
                 files, now, cpc, wjob, written, werr, smsg, wnow, hb,
                 cancelVars, cleanVars, streamVars, pend>>

\* (progress, stage_progress, message) of the heartbeat for a status.
RunpodProgress(status) ==
  CASE status = "IN_QUEUE" -> <<P(15), P(10), "Runpod job in queue">>
    [] status = "IN_PROGRESS" ->
         <<P(45), P(55), "Runpod worker processing export">>
    [] status = "COMPLETED" -> <<P(95), P(100), "Runpod worker completed export">>
    [] status = "CANCELLED" -> <<P(100), P(100), "Runpod worker canceled export">>
    [] status = "FAILED" -> <<P(100), P(100), "Runpod worker failed export">>
    [] status = "TIMED_OUT" -> <<P(100), P(100), "Runpod worker timed out">>
    [] OTHER -> <<P(40), P(40), "Runpod status update">>

\* if status.status != last_status { append_job_event(..); last_status = .. }
RunpodReport ==
  /\ wpc = "rp_report"
  /\ IF rstatus # last_status
     THEN /\ AppendJobEvent("worker", wjob, "stage_heartbeat", "write_capsule",
                            RunpodProgress(rstatus)[1], RunpodProgress(rstatus)[2],
                            RunpodProgress(rstatus)[3])
          /\ last_status' = rstatus
     ELSE /\ WorkerReady
          /\ UNCHANGED <<jobs, pend, clk, last_status>>
  /\ wpc' = "rp_match"
  /\ UNCHANGED <<edgeVars, toolVars, backend_mode, remote, rstatus, resp, buses, queue, files, now, cpc,
                 wjob, written, werr, smsg, wnow, hb, cancelVars, cleanVars,
                 streamVars>>

\* match status.status: IN_QUEUE and IN_PROGRESS sleep
\* runpod_poll_interval_seconds and loop; COMPLETED resolves and stats the
\* artifact (an error if that fails) and runs the finalize section; every
\* other status is an error.
RunpodMatch ==
  /\ wpc = "rp_match"
  /\ WorkerReady
  /\ IF rstatus \in RunpodPending
     THEN /\ wpc' = "rp_poll"
          /\ UNCHANGED jobs
     ELSE IF rstatus = "COMPLETED"
     THEN \E ok \in BOOLEAN :
            /\ wpc' = IF ok THEN "completed" ELSE "rollback"
            /\ jobs' = [jobs EXCEPT ![wjob] = IF ok /\ JobExists(wjob)
                                              THEN CompletedJob(@, now)
                                              ELSE @]
     ELSE /\ wpc' = "rollback"
          /\ UNCHANGED jobs
  /\ UNCHANGED <<edgeVars, toolVars, runpodVars, resp, clk, buses, queue, files, now, cpc,
                 wjob, written, werr, smsg, wnow, hb, cancelVars, cleanVars,
                 streamVars, pend>>

\* The Runpod endpoint: a queued job is picked up, a job in progress ends.
\* Nothing makes the endpoint take either step.
RemoteStep ==
  /\ \/ /\ remote = "IN_QUEUE"
        /\ remote' = "IN_PROGRESS"
     \/ /\ remote = "IN_PROGRESS"
        /\ remote' \in {"COMPLETED", "FAILED", "TIMED_OUT"}
  /\ UNCHANGED <<edgeVars, toolVars, backend_mode, last_status, rstatus, resp, clk, jobs, buses, queue,
                 files, now, cpc, workerVars, hb, cancelVars, cleanVars,
                 streamVars, pend>>

\* ------------------------------------------------------------ side-index
\* The tool calls in flight and the node ids of a capsule.
ToolCalls == 1..MaxToolCalls
NodeIds == 1..MaxNodeIds

\* A CapsuleIndex: its nodes, and the call whose load-or-build produced it.
Index(c, nodes) == [by |-> c, nodes |-> nodes]

SeqToSet(q) == {q[i] : i \in 1..Len(q)}

\* A sequence listing the elements of the set S, smallest first.
RECURSIVE SetToSeq(_)
SetToSeq(S) ==
  IF S = {} THEN <<>>
  ELSE LET m == CHOOSE x \in S : \A y \in S : x <= y
       IN <<m>> \o SetToSeq(S \ {m})

HasDuplicate(q) == Cardinality(SeqToSet(q)) < Len(q)

\* state.mcp_indexes after construction; `nodes` is what the capsule file
\* holds and `db` the sidecar file on disk.
InitTools(nodes, db) ==
  /\ capsule = nodes
  /\ sidecar = db
  /\ mcp_indexes = <<>>
  /\ tpc = [c \in ToolCalls |-> "idle"]
  /\ tidx = [c \in ToolCalls |-> <<>>]
  /\ loaded = {}
  /\ held = [c \in ToolCalls |-> <<>>]
  /\ tcall = [c \in ToolCalls |-> <<>>]
  /\ answers = [c \in ToolCalls |-> <<>>]

\* get_or_load_index, the read section: a cached index is returned at once.
IndexLookup(c) ==
  /\ tpc[c] = "idle"
  /\ IF mcp_indexes # <<>>
     THEN /\ tidx' = [tidx EXCEPT ![c] = mcp_indexes]
          /\ tpc' = [tpc EXCEPT ![c] = "done"]
     ELSE /\ tpc' = [tpc EXCEPT ![c] = "closure"]
          /\ UNCHANGED tidx
  /\ UNCHANGED <<exportVars, edgeVars, callVars, capsule, sidecar, mcp_indexes, loaded, held>>

\* The spawn_blocking closure: load_from_sidecar if the sidecar exists (it
\* can fail), else on to build_from_capsule.
IndexLoad(c) ==
  /\ tpc[c] = "closure"
  /\ loaded' = loaded \cup {c}
  /\ \/ /\ sidecar # <<>>
        /\ tidx' = [tidx EXCEPT ![c] = <<Index(c, SetToSeq(sidecar[1]))>>]
        /\ tpc' = [tpc EXCEPT ![c] = "insert"]
     \/ /\ tpc' = [tpc EXCEPT ![c] = "build"]
        /\ UNCHANGED tidx
  /\ UNCHANGED <<exportVars, edgeVars, callVars, capsule, sidecar, mcp_indexes, held>>

\* build_from_capsule(&capsule)?: one NodeRecord per node frame, in order.
IndexBuild(c) ==
  /\ tpc[c] = "build"
  /\ \/ /\ tidx' = [tidx EXCEPT ![c] = <<Index(c, capsule)>>]
        /\ tpc' = [tpc EXCEPT ![c] = "persist"]
        /\ held' = [held EXCEPT ![c] = sidecar]
     \/ /\ tpc' = [tpc EXCEPT ![c] = "failed"]
        /\ UNCHANGED <<tidx, held>>
  /\ UNCHANGED <<exportVars, edgeVars, callVars, capsule, sidecar, mcp_indexes, loaded>>

\* persist_to_sidecar, conn.execute_batch: the tables are created and
\* "DELETE FROM" empties each of them, outside of any transaction.
Cleared(db) ==
  <<{}>>

PersistClear(c) ==
  /\ tpc[c] = "persist"
  /\ sidecar' = Cleared(sidecar)
  /\ tpc' = [tpc EXCEPT ![c] = "tx"]
  /\ UNCHANGED <<exportVars, edgeVars, callVars, capsule, mcp_indexes, tidx, loaded, held>>

\* The rows an INSERT of `nodes` meets a PRIMARY KEY conflict on.
InsertConflict(db, nodes) ==
  HasDuplicate(nodes) \/ SeqToSet(nodes) \cap db[1] # {}

\* persist_to_sidecar, the transaction: the INSERTs and tx.commit().  An
\* INSERT that fails drops the transaction, which rolls its INSERTs back.
PersistTx(c) ==
  /\ tpc[c] = "tx"
  /\ IF InsertConflict(sidecar, tidx[c][1].nodes)
     THEN /\ tpc' = [tpc EXCEPT ![c] = "failed"]
          /\ UNCHANGED sidecar
     ELSE /\ sidecar' = <<sidecar[1] \cup SeqToSet(tidx[c][1].nodes)>>
          /\ tpc' = [tpc EXCEPT ![c] = "insert"]
  /\ UNCHANGED <<exportVars, edgeVars, callVars, capsule, mcp_indexes, tidx, loaded, held>>

\* get_or_load_index, the write section: the call's own index is inserted
\* under the key and returned.
IndexInsert(c) ==
  /\ tpc[c] = "insert"
  /\ mcp_indexes' = tidx[c]
  /\ tpc' = [tpc EXCEPT ![c] = "done"]
  /\ UNCHANGED <<exportVars, edgeVars, callVars, capsule, sidecar, tidx, loaded, held>>

\* ---------------------------------------------------------------- run_tool
\* The tool calls of the model: node_get with a nodeId, and symbol_lookup
\* with a query that every symbol matches by prefix and the limit `arg`.
ToolRequests ==
  [tool : {"node_get"}, arg : NodeIds] \cup [tool : {"symbol_lookup"}, arg : {1}]

\* format!("{}|{}|{}", capsule_path, tool, args): one key per request.
cache_key(req) ==
  IF req.tool = "symbol_lookup" THEN "c" ELSE IF req.arg = 1 THEN "a" ELSE "b"

\* confidence_block(score, factors, warnings), score in thousandths.
confidence_block(score, factor) ==
  [score |-> score,
   tier |-> IF score >= 850 THEN "high" ELSE IF score >= 600 THEN "medium" ELSE "low",
   factors |-> factor]

NodeName(n) == IF n = 1 THEN "a" ELSE "b"

\* tool_node_get: Err (<<>>) for an unknown nodeId, else (result,
\* pagination, confidence) with the node as the one paginated item.
tool_node_get(index, node_id) ==
  IF node_id \notin SeqToSet(index.nodes) THEN <<>>
  ELSE <<[result |-> [node |-> node_id],
          pagination |-> [items |-> <<node_id>>, next_cursor |-> <<>>,
                          truncated |-> FALSE],
          confidence |-> confidence_block(990, "exact_id_match")]>>

\* tool_symbol_lookup: one ranked row per symbol, score 0.92 for a prefix
\* match, key "{symbol_norm}::{node_id}".
SymbolRows(index) ==
  {[score |-> 9200000, key |-> <<NodeName(n), ":", ":", NodeName(n)>>] :
     n \in SeqToSet(index.nodes)}

tool_symbol_lookup(index, limit) ==
  LET pagination == paginate_ranked(SymbolRows(index), limit, <<>>)
  IN <<[result |-> [items |-> pagination.items],
        pagination |-> pagination,
        confidence |-> confidence_block(IF pagination.items = <<>> THEN 200 ELSE 920,
                                        "symbol_norm_match")]>>

Tool(index, req) ==
  IF req.tool = "node_get" THEN tool_node_get(index, req.arg)
  ELSE tool_symbol_lookup(index, req.arg)

\* The envelope the mcp handler builds from run_tool's Ok value.
Envelope(req, out) ==
  [tool |-> req.tool, arg |-> req.arg, error |-> "",
   result |-> out.result, confidence |-> out.confidence,
   pagination |-> [nextCursor |-> out.pagination.next_cursor,
                   truncated |-> out.pagination.truncated,
                   returned |-> Len(out.pagination.items)]]

ToolFailure(req) ==
  [tool |-> req.tool, arg |-> req.arg, error |-> "NOT_FOUND"]

\* cached.get("result").get("items").as_array(), or empty.
CachedItems(cached) ==
  IF "items" \in DOMAIN cached.result THEN cached.result.items ELSE <<>>

\* run_tool on a cache hit: the Ok value rebuilt from the cached envelope.
FromCache(cached) ==
  [result |-> cached.result,
   pagination |-> [items |-> CachedItems(cached),
                   next_cursor |-> cached.pagination.nextCursor,
                   truncated |-> cached.pagination.truncated],
   confidence |-> cached.confidence]

\* run_tool after get_or_load_index: the cache section.  A hit is answered
\* from the cached envelope.
ToolLookup(c, req) ==
  /\ tpc[c] = "done"
  /\ LET key == cache_key(req) IN
       /\ got' = cache.values[key]
       /\ cache' = cache_get(cache, key)
       /\ cache_ops' = Append(cache_ops, [op |-> "get", key |-> key, value |-> 0])
       /\ tcall' = [tcall EXCEPT ![c] = <<req>>]
       /\ IF cache.values[key] # <<>>
          THEN /\ answers' = [answers EXCEPT
                                ![c] = <<Envelope(req, FromCache(cache.values[key][1]))>>]
               /\ tpc' = [tpc EXCEPT ![c] = "answered"]
          ELSE /\ tpc' = [tpc EXCEPT ![c] = "tool"]
               /\ UNCHANGED answers
  /\ UNCHANGED <<exportVars, limiterVars, mcp_resp, auth, pageVars, capsule, sidecar,
                 mcp_indexes, tidx, loaded, held>>

\* run_tool on a miss: the tool runs on the call's index; its Ok value is
\* cached as an envelope and returned, its Err is returned.
ToolRun(c) ==
  /\ tpc[c] = "tool"
  /\ LET req == tcall[c][1]
         out == Tool(tidx[c][1], req)
     IN IF out = <<>>
        THEN /\ answers' = [answers EXCEPT ![c] = <<ToolFailure(req)>>]
             /\ UNCHANGED <<cache, cache_ops>>
        ELSE /\ answers' = [answers EXCEPT ![c] = <<Envelope(req, out[1])>>]
             /\ cache' = cache_set(cache, cache_key(req), Envelope(req, out[1]))
             /\ cache_ops' = Append(cache_ops, [op |-> "set", key |-> cache_key(req),
                                                value |-> 0])
  /\ tpc' = [tpc EXCEPT ![c] = "answered"]
  /\ UNCHANGED <<exportVars, limiterVars, mcp_resp, auth, got, pageVars, capsule, sidecar,
                 mcp_indexes, tidx, loaded, held, tcall>>

\* ------------------------------------------------------------ specification
BackendModes == {"legacy_vps", "runpod_queue"}

\* The export service after construction with backend mode `mode`.
InitBackend(mode) ==
  /\ backend_mode = mode
  /\ jobs = [j \in JobIds |-> NoJob]
  /\ buses = {}
  /\ queue = <<>>
  /\ files = {}
  /\ now = 0
  /\ cpc = [j \in JobIds |-> "none"]
  /\ wpc = "idle"
  /\ wjob = 0
  /\ written = 0
  /\ werr = FALSE
  /\ smsg = ""
  /\ wnow = 0
  /\ hb = [j \in JobIds |-> "off"]
  /\ can_pc = "idle"
  /\ can_job = 0
  /\ can_del = FALSE
  /\ can_resp = NoResponse
  /\ cl_pc = "idle"
  /\ cl_files = {}
  /\ cl_ids = {}
  /\ st_pc = "idle"
  /\ st_since = 0
  /\ st_replay = <<>>
  /\ st_recv = <<>>
  /\ pend = [t \in Tasks |-> <<>>]
  /\ clk = [t \in Tasks |-> <<>>]
  /\ resp = NoRequest
  /\ remote = "none"
  /\ last_status = ""
  /\ rstatus = ""

InitExport == InitBackend("legacy_vps")

\* The rate limiter, the query cache and the handlers' answers after
\* construction with the configuration `config`.
InitEdge(config) ==
  /\ limiter = NewLimiter(config.per_minute, config.burst)
  /\ buckets = [k \in LimiterKeys |-> <<>>]
  /\ inst = 0
  /\ rate = NoDecision
  /\ mcp_resp = NoMcpResponse
  /\ auth = NoAuth
  /\ cache = with_capacity(config.cache_capacity)
  /\ cache_ops = <<>>
  /\ got = <<>>

\* The /mcp endpoint after construction with the configuration `config`,
\* with an empty capsule and no sidecar on disk.
InitMcp(config) ==
  /\ InitEdge(config)
  /\ InitTools(<<>>, <<>>)

DefaultConfig == [per_minute |-> 1, burst |-> 1, cache_capacity |-> 1]

InitCommon ==
  /\ InitExport
  /\ InitMcp(DefaultConfig)
  /\ InitPage({}, 1)

\* One client, one export job: every handler and task of the service around
\* a single job, no event stream.
SingleJob == {1}

Init ==
  /\ InitCommon
  /\ st_job = 0

Next ==
  \/ \E j \in SingleJob : CreateInsert(j)
  \/ \E j \in JobIds : CreateSend(j)
  \/ \E j \in JobIds : CreateAppend(j)
  \/ WorkerClaim
  \/ WorkerAppends
  \/ WorkerChecks
  \/ WorkerMkdirFail
  \/ WorkerWriteSetup
  \/ WriteCreate
  \/ WritePut
  \/ WriteFinish
  \/ WorkerWriteJoin
  \/ \E j \in JobIds : HeartbeatTick(j)
  \/ SidecarHeartbeat
  \/ SidecarDone(SidecarMessages)
  \/ WorkerStat
  \/ WorkerFinalize
  \/ WorkerRollback
  \/ \E j \in JobIds : CancelLock(j)
  \/ CancelAppend
  \/ CancelFinish
  \/ CleanupLock
  \/ CleanupDelete
  \/ CleanupBuses
  \/ Tick

Spec == Init /\ [][Next]_vars

\* Several clients and the bounded queue: the submission handlers, the one
\* worker and the cancel handler around MaxJobs jobs.  The stages are short
\* (no heartbeat is due) and the sidecar build succeeds.
NextQueue ==
  \/ \E j \in JobIds : CreateInsert(j)
  \/ \E j \in JobIds : CreateSend(j)
  \/ \E j \in JobIds : CreateAppend(j)
  \/ WorkerClaim
  \/ WorkerAppends
  \/ WorkerChecks
  \/ WorkerMkdirFail
  \/ WorkerWriteSetup
  \/ WriteCreate
  \/ WritePut
  \/ WriteFinish
  \/ WorkerWriteJoin
  \/ SidecarDone({"Sidecar index ready"})
  \/ WorkerStat
  \/ WorkerFinalize
  \/ WorkerRollback
  \/ \E j \in JobIds : CancelLock(j)
  \/ CancelAppend
  \/ CancelFinish

SpecQueue == Init /\ [][NextQueue]_vars

\* One job and one client following its event stream.
InitStream ==
  /\ InitCommon
  /\ st_job = 1

NextStream ==
  \/ \E j \in SingleJob : CreateInsert(j)
  \/ \E j \in JobIds : CreateSend(j)
  \/ \E j \in JobIds : CreateAppend(j)
  \/ WorkerClaim
  \/ WorkerAppends
  \/ WorkerChecks
  \/ WorkerMkdirFail
  \/ WorkerWriteSetup
  \/ WriteCreate
  \/ WritePut
  \/ WriteFinish
  \/ WorkerWriteJoin
  \/ \E j \in JobIds : HeartbeatTick(j)
  \/ SidecarHeartbeat
  \/ SidecarDone(SidecarMessages)
  \/ WorkerStat
  \/ WorkerFinalize
  \/ WorkerRollback
  \/ \E j \in JobIds : CancelLock(j)
  \/ CancelAppend
  \/ CancelFinish
  \/ \E since \in 0..MaxSince : StreamOpen(since)
  \/ StreamSubscribe
  \/ \E t \in Tasks : Broadcast(t)

SpecStream == InitStream /\ [][NextStream]_vars

\* ------------------------------------------------------------------ helpers
Range(f) == {f[i] : i \in DOMAIN f}

EventTypes(j) == {jobs[j].events[i].type : i \in 1..Len(jobs[j].events)}

CountEvents(j, type) ==
  Cardinality({i \in 1..Len(jobs[j].events) : jobs[j].events[i].type = type})

\* The worker is through with job j: it is neither queued nor in the worker's
\* hands.
WorkerDoneWith(j) == JobExists(j) /\ wjob # j /\ j \notin Range(queue) /\ cpc[j] = "done"

\* =================================================================== claims

\* C1 (SpecStream): the client that opened the stream with sinceSeq = S has
\* been sent the seqs S+1, S+2, ... in this order, each once, and once every
\* appended event has been broadcast it has been sent every event up to the
\* newest one of the log.
C1_StreamExactlyOnceInOrder ==
  /\ st_pc \in {"live", "closed"} =>
       \A i \in 1..Len(st_recv) : st_recv[i] = st_since + i
  /\ (st_pc = "live" /\ \A t \in Tasks : pend[t] = <<>>) =>
       Len(st_recv) = jobs[st_job].next_seq - 1 - st_since

\* C2 (Spec): in every reachable state the log of every job holds the seqs
\* 1, 2, 3, ... without gap or repeat and its newest seq is next_seq - 1;
\* every step that adds an event adds it with seq = next_seq and raises
\* next_seq by exactly one, and only the collector's reset of an expired
\* job's log changes the log or next_seq otherwise.
LogSeqsConsecutive ==
  \A j \in JobIds :
    LET evs == jobs[j].events IN
      /\ \A i \in 1..Len(evs) : evs[i].seq = i
      /\ jobs[j].next_seq = Len(evs) + 1

AppendIssuesNextSeq ==
  \A j \in JobIds :
    (jobs'[j].events # jobs[j].events \/ jobs'[j].next_seq # jobs[j].next_seq) =>
      \/ /\ Len(jobs'[j].events) = Len(jobs[j].events) + 1
         /\ SubSeq(jobs'[j].events, 1, Len(jobs[j].events)) = jobs[j].events
         /\ jobs'[j].events[Len(jobs'[j].events)].seq = jobs[j].next_seq
         /\ jobs'[j].next_seq = jobs[j].next_seq + 1
      \/ /\ jobs[j].status = "completed"
         /\ jobs'[j].status = "expired"
         /\ jobs'[j].events = <<>>
         /\ jobs'[j].next_seq = 1

C2_SeqsConsecutive == []LogSeqsConsecutive /\ [][AppendIssuesNextSeq]_vars

\* The submission handler, the worker, a heartbeat task and the cancel handler
\* have all appended to the log of one job.
C2_Witness ==
  \E j \in JobIds :
    /\ {"stage_progress", "job_started", "stage_heartbeat", "job_canceled"}
         \subseteq EventTypes(j)
    /\ \E i \in 1..Len(jobs[j].events) : jobs[j].events[i].stage = "queued"

\* C3 (Spec): a job whose status is completed, failed, canceled or expired
\* keeps that status in every step, except that the retention collector's
\* section takes a completed job to expired.
CollectorStep == cl_pc = "idle" /\ cl_pc' = "delete"

TerminalStaysTerminal ==
  \A j \in JobIds :
    jobs[j].status \in TerminalStates =>
      \/ jobs'[j].status = jobs[j].status
      \/ /\ jobs[j].status = "completed"
         /\ jobs'[j].status = "expired"
         /\ CollectorStep

C3_TerminalAbsorbing == [][TerminalStaysTerminal]_vars

\* C4 (Spec): in every reachable state a job whose status is terminal has no
\* request payload, progress 100 and a stage among download-ready, failed,
\* canceled and expired.
C4_TerminalShape ==
  \A j \in JobIds :
    jobs[j].status \in TerminalStates =>
      /\ ~jobs[j].request
      /\ jobs[j].progress = P(100)
      /\ jobs[j].stage \in {"download_ready", "failed", "canceled", "expired"}

\* C5 (SpecQueue): a submission handler that has reached the queue step can
\* take it at once, whatever the queue holds: with the queue full it answers
\* 503 instead of waiting for space.
C5_FullQueueNeverWaits ==
  \A j \in JobIds : cpc[j] = "send" => ENABLED CreateSend(j)

\* C6 (Spec): the section of a DELETE on a queued or running job leaves the
\* job canceled at stage canceled with progress 100 and without request,
\* error, artifact descriptor and artifact path; once the handler has answered,
\* the log holds exactly one job_canceled event; and a canceled job stays
\* canceled in every later step.
CancelSection(j) == can_pc = "idle" /\ can_pc' # "idle" /\ can_job' = j

CancelSetsFields ==
  \A j \in JobIds :
    (CancelSection(j) /\ jobs[j].status \in {"queued", "running"}) =>
      /\ jobs'[j].status = "canceled"
      /\ jobs'[j].stage = "canceled"
      /\ jobs'[j].progress = P(100)
      /\ ~jobs'[j].request
      /\ jobs'[j].error = "none"
      /\ jobs'[j].artifact = <<>>
      /\ ~jobs'[j].artifact_path
      /\ can_pc' = "append"

OneCanceledEvent ==
  \A j \in JobIds :
    (jobs[j].status = "canceled" /\ ~(can_job = j /\ can_pc = "append")) =>
      CountEvents(j, "job_canceled") = 1

StaysCanceled ==
  \A j \in JobIds : jobs[j].status = "canceled" => jobs'[j].status = "canceled"

C6_CancelQueuedOrRunning ==
  /\ [][CancelSetsFields]_vars
  /\ []OneCanceledEvent
  /\ [][StaysCanceled]_vars

\* C7 (Spec): a DELETE on a job whose status is terminal changes nothing: its
\* section leaves the registry, the files, the buses and the pending
\* broadcasts as they are, takes the answer (200, the current snapshot) and
\* skips the event append; the rest of the handler deletes no file and
\* changes no record.
CancelOnTerminalIsNoop ==
  \A j \in JobIds :
    (CancelSection(j) /\ jobs[j].status \in TerminalStates) =>
      /\ jobs' = jobs
      /\ files' = files
      /\ buses' = buses
      /\ pend' = pend
      /\ can_pc' = "finish"
      /\ ~can_del'
      /\ can_resp' = to_response(jobs[j])
      /\ can_resp'.code = 200

AnswerWithoutDelete ==
  (can_pc = "finish" /\ can_pc' = "idle" /\ ~can_del) =>
    /\ jobs' = jobs
    /\ files' = files
    /\ buses' = buses
    /\ pend' = pend

C7_CancelIdempotent ==
  [][CancelOnTerminalIsNoop /\ AnswerWithoutDelete]_vars

\* A DELETE on a completed job whose capsule file is on disk is being
\* answered.
C7_Witness ==
  /\ can_pc = "finish"
  /\ can_job \in JobIds
  /\ jobs[can_job].status = "completed"
  /\ can_resp.status = "completed"
  /\ can_job \in files
  /\ CountEvents(can_job, "job_canceled") = 0

\* C8 (Spec): a job that was canceled (its log holds the job_canceled event)
\* and that the worker is through with has no capsule file on disk.
C8_CanceledLeavesNoFile ==
  \A j \in JobIds :
    (WorkerDoneWith(j) /\ CountEvents(j, "job_canceled") > 0) => j \notin files

\* C9 (SpecQueue): the rollback of a job whose pipeline returned an error
\* leaves it failed at stage failed with progress 100 and the error code
\* EXPORT_FAILED; the worker's next step appends job_failed as the newest
\* event of its log and returns the worker to the queue, the job id is not
\* put back on the queue, a failed job is never in the pipeline again, and
\* the idle worker can take the next job id whenever the queue holds one.
RollbackMarksFailed ==
  (wpc = "rollback" /\ wpc' # "rollback" /\ JobExists(wjob)) =>
    /\ jobs'[wjob].status = "failed"
    /\ jobs'[wjob].stage = "failed"
    /\ jobs'[wjob].progress = P(100)
    /\ jobs'[wjob].error = "EXPORT_FAILED"
    /\ wpc' = "failed"
    /\ queue' = queue

FailedEventThenNextJob ==
  (wpc = "failed" /\ wpc' # "failed") =>
    /\ Len(jobs'[wjob].events) = Len(jobs[wjob].events) + 1
    /\ jobs'[wjob].events[Len(jobs'[wjob].events)].type = "job_failed"
    /\ jobs'[wjob].events[Len(jobs'[wjob].events)].seq = jobs[wjob].next_seq
    /\ jobs'[wjob].status = "failed"
    /\ jobs'[wjob].stage = "failed"
    /\ jobs'[wjob].progress = P(100)
    /\ wpc' = "idle"
    /\ wjob' = 0
    /\ queue' = queue

FailedJobNotRetried ==
  \A j \in JobIds :
    jobs[j].status = "failed" =>
      /\ j \notin Range(queue)
      /\ wjob = j => wpc = "failed"

WorkerTakesNextJob ==
  (wpc = "idle" /\ WorkerReady /\ queue # <<>>) => ENABLED WorkerClaim

C9_FailureRollback ==
  /\ [][RollbackMarksFailed /\ FailedEventThenNextJob]_vars
  /\ [](FailedJobNotRetried /\ WorkerTakesNextJob)

\* The first job failed, its job_failed event is logged, and the worker is
\* running the second job.
C9_Witness ==
  /\ jobs[1].status = "failed"
  /\ CountEvents(1, "job_failed") = 1
  /\ wjob = 2
  /\ jobs[2].status = "running"

\* C10 (Spec): a job whose status is failed and that the worker is through
\* with has no capsule file on disk.
C10_FailedLeavesNoFile ==
  \A j \in JobIds :
    (WorkerDoneWith(j) /\ jobs[j].status = "failed") => j \notin files

\* ------------------------------------------------------- fair scheduling
\* The tokio runtime runs every task that can take a step: the worker loop,
\* the handlers of the requests received, the collector on its interval,
\* and time goes on.  New requests, heartbeat timers that fire before their
\* stage ends and failures are not forced.
WorkerStep ==
  \/ WorkerClaim
  \/ WorkerAppends
  \/ WorkerChecks
  \/ WorkerWriteSetup
  \/ WorkerWriteJoin
  \/ SidecarDone(SidecarMessages)
  \/ WorkerStat
  \/ WorkerFinalize
  \/ WorkerRollback

WriterStep == WriteCreate \/ WritePut \/ WriteFinish

CreateStep == \E j \in JobIds : CreateSend(j) \/ CreateAppend(j)

CancelStep == CancelAppend \/ CancelFinish

CollectorRun == CleanupLock \/ CleanupDelete \/ CleanupBuses

Fairness ==
  /\ WF_vars(WorkerStep)
  /\ WF_vars(WriterStep)
  /\ WF_vars(CreateStep)
  /\ WF_vars(CancelStep)
  /\ WF_vars(CollectorRun)
  /\ WF_vars(Tick)

SpecFair == Init /\ [][Next]_vars /\ Fairness

\* C11 (SpecFair): a submitted job that never fails and is never canceled
\* eventually shows status completed, progress 100 and an artifact
\* descriptor; and a job that shows them keeps showing them in every later
\* step until the collector expires it.
ShowsCompleted(j) ==
  /\ jobs[j].status = "completed"
  /\ jobs[j].progress = P(100)
  /\ jobs[j].artifact # <<>>

NeverFailedOrCanceled(j) == [](jobs[j].status \notin {"failed", "canceled"})

EventuallyCompleted ==
  \A j \in SingleJob :
    NeverFailedOrCanceled(j) => [](cpc[j] = "send" => <>ShowsCompleted(j))

CompletedUntilExpired ==
  \A j \in JobIds :
    ShowsCompleted(j) => ShowsCompleted(j)' \/ jobs'[j].status = "expired"

C11_CompletesAndStays == EventuallyCompleted /\ [][CompletedUntilExpired]_vars

\* C12 (SpecFair): the end of the side-index build, whatever its result,
\* takes the pipeline on to the build-sidecar progress event, which carries
\* the result's message; the finalize section that completes a job whose
\* build failed finds the "skipped" event in the job's log; and a job whose
\* build failed and that never fails otherwise and is never canceled
\* eventually is completed with that event in its log.
SkippedMessages == SidecarMessages \ {"Sidecar index ready"}

SidecarEventIn(evs, m) ==
  \E i \in 1..Len(evs) :
    /\ evs[i].type = "stage_progress"
    /\ evs[i].stage = "build_sidecar"
    /\ evs[i].progress = SIDECAR_STAGE_END
    /\ evs[i].message = m

SidecarEventLogged(j, m) == SidecarEventIn(jobs[j].events, m)

BuildEndNotFatal ==
  /\ (wpc = "sidecar" /\ wpc' # "sidecar") => (wpc' = "sdone" /\ jobs' = jobs)
  /\ (wpc = "sdone" /\ wpc' # "sdone") =>
       /\ wpc' = "chk4"
       /\ ~AppendDropped(jobs[wjob], "stage_progress") =>
            SidecarEventIn(jobs'[wjob].events, smsg)

CompletedAfterSkippedBuild ==
  (wpc = "finalize" /\ wpc' = "completed" /\ smsg \in SkippedMessages) =>
    /\ jobs'[wjob].status = "completed"
    /\ SidecarEventIn(jobs'[wjob].events, smsg)

SkippedBuildCompletes ==
  \A j \in SingleJob : \A m \in SkippedMessages :
    NeverFailedOrCanceled(j) =>
      []((wjob = j /\ wpc = "sdone" /\ smsg = m) =>
           <>(jobs[j].status = "completed" /\ SidecarEventLogged(j, m)))

C12_SidecarFailureNotFatal ==
  /\ [][BuildEndNotFatal /\ CompletedAfterSkippedBuild]_vars
  /\ SkippedBuildCompletes

\* A job is completed with the progress event of a skipped index in its log.
C12_Witness ==
  \E j \in JobIds : \E m \in SkippedMessages :
    jobs[j].status = "completed" /\ SidecarEventLogged(j, m)

\* One job with the clock of every append call read before its section.
NextClock ==
  \/ \E j \in SingleJob : CreateInsert(j)
  \/ \E j \in JobIds : CreateSend(j)
  \/ \E j \in JobIds : CreateAppend(j)
  \/ WorkerClaim
  \/ WorkerAppends
  \/ WorkerChecks
  \/ WorkerMkdirFail
  \/ WorkerWriteSetup
  \/ WriteCreate
  \/ WritePut
  \/ WriteFinish
  \/ WorkerWriteJoin
  \/ \E j \in JobIds : HeartbeatTick(j)
  \/ SidecarDone({"Sidecar index ready"})
  \/ WorkerStat
  \/ WorkerFinalize
  \/ WorkerRollback
  \/ \E j \in JobIds : CancelLock(j)
  \/ CancelAppend
  \/ CancelFinish
  \/ Tick
  \/ \E t \in Tasks : ReadClock(t)

SpecClock == Init /\ [][NextClock]_vars

\* C15 (SpecClock): in every reachable state the timestamps of the events of
\* a job's log are in the order of their seqs: an event with a smaller seq
\* has no later timestamp.
C15_TimestampsFollowSeqs ==
  \A j \in JobIds :
    \A i, k \in 1..Len(jobs[j].events) :
      jobs[j].events[i].seq < jobs[j].events[k].seq =>
        jobs[j].events[i].ts <= jobs[j].events[k].ts

\* One job through its whole life up to expiry.  The stages are short (no
\* heartbeat is due) and the sidecar build succeeds.
LifeToExpiry ==
  \/ \E j \in SingleJob : CreateInsert(j)
  \/ \E j \in JobIds : CreateSend(j)
  \/ \E j \in JobIds : CreateAppend(j)
  \/ WorkerClaim
  \/ WorkerAppends
  \/ WorkerChecks
  \/ WorkerMkdirFail
  \/ WorkerWriteSetup
  \/ WriteCreate
  \/ WritePut
  \/ WriteFinish
  \/ WorkerWriteJoin
  \/ SidecarDone({"Sidecar index ready"})
  \/ WorkerStat
  \/ WorkerFinalize
  \/ WorkerRollback
  \/ CleanupLock
  \/ CleanupDelete
  \/ CleanupBuses
  \/ Tick

\* ... with a client on its event stream and a client that cancels.
NextExpiry ==
  \/ LifeToExpiry
  \/ \E j \in JobIds : CancelLock(j)
  \/ CancelAppend
  \/ CancelFinish
  \/ StreamOpen(0)
  \/ StreamSubscribe
  \/ \E t \in Tasks : Broadcast(t)

SpecExpiry == InitStream /\ [][NextExpiry]_vars

\* ... with a client on its event stream and a client that fetches events.
NextGone ==
  \/ LifeToExpiry
  \/ StreamOpen(0)
  \/ StreamSubscribe
  \/ \E t \in Tasks : Broadcast(t)
  \/ \E j \in JobIds : EventsFetch(j, 0, <<>>)
  \/ ReadAnswer

SpecGone == InitStream /\ [][NextGone]_vars

\* C13 (SpecExpiry): for a job whose status is canceled or expired, the
\* section of an append of a job-started, stage-progress or stage-heartbeat
\* event returns the record as it is and leaves nothing to broadcast; and
\* every step in which the worker or the submission handler makes such an
\* append leaves the registry (next_seq, log, progress, stage, stage
\* progress, message, timestamps), the pending broadcasts and what the
\* streaming client has been sent unchanged.
DroppedTypes == {"job_started", "stage_progress", "stage_heartbeat"}

DropStatuses == {"canceled", "expired"}

DroppedSectionIsIdentity ==
  \A j \in JobIds : \A type \in DroppedTypes :
    jobs[j].status \in DropStatuses =>
      /\ AppendLocked(jobs[j], now, type, "write_capsule", P(60), P(50), "m") = jobs[j]
      /\ Pending(j, jobs[j], now, type, "write_capsule", P(60), P(50), "m") = <<>>

ProgressAppendAt ==
  {"started", "prep0", "prep1", "wstart", "wend", "sstart", "sdone", "fin0", "fin1"}

DroppedStepChangesNothing ==
  /\ (wpc \in ProgressAppendAt /\ wpc' # wpc /\ jobs[wjob].status \in DropStatuses) =>
       (jobs' = jobs /\ pend' = pend /\ st_recv' = st_recv /\ buses' = buses)
  /\ \A j \in JobIds :
       (cpc[j] = "append" /\ cpc'[j] = "done" /\ jobs[j].status \in DropStatuses) =>
         (jobs' = jobs /\ pend' = pend /\ st_recv' = st_recv /\ buses' = buses)

C13_DroppedAppendNoEffect ==
  []DroppedSectionIsIdentity /\ [][DroppedStepChangesNothing]_vars

\* The client follows the stream of a canceled job, and the worker has made
\* its "Prepared frames" append after the cancellation: the event is not in
\* the log.
C13_Witness ==
  /\ st_pc = "live"
  /\ wpc = "chk2"
  /\ jobs[wjob].status = "canceled"
  /\ \A i \in 1..Len(jobs[wjob].events) : jobs[wjob].events[i].message # "Prepared frames"
  /\ \A i \in 1..Len(st_recv) : st_recv[i] <= Len(jobs[wjob].events)

\* C14 (Spec): the job_completed event of a job is the last event of its
\* log: no event is appended to the job after it.
C14_CompletedIsLastEvent ==
  \A j \in JobIds : \A i \in 1..Len(jobs[j].events) :
    jobs[j].events[i].type = "job_completed" => i = Len(jobs[j].events)

\* C16 (Spec): in every reachable state a job has an artifact descriptor
\* exactly when its status is completed and its artifact path is set, and a
\* job that exists and is not completed has neither a descriptor nor a path.
C16_ArtifactIffCompleted ==
  \A j \in JobIds :
    /\ (jobs[j].artifact # <<>>) <=>
         (jobs[j].status = "completed" /\ jobs[j].artifact_path)
    /\ jobs[j].status \in {"queued", "running", "failed", "canceled", "expired"} =>
         (jobs[j].artifact = <<>> /\ ~jobs[j].artifact_path)

\* A job has completed with its descriptor and path, and a client has asked
\* to cancel it since.
C16_Witness ==
  \E j \in JobIds :
    /\ jobs[j].status = "completed"
    /\ jobs[j].artifact # <<>>
    /\ jobs[j].artifact_path
    /\ can_pc = "finish"
    /\ can_job = j

\* MaxJobs submissions, the worker and the retention collector.
NextCollect ==
  \/ \E j \in JobIds : CreateInsert(j)
  \/ \E j \in JobIds : CreateSend(j)
  \/ \E j \in JobIds : CreateAppend(j)
  \/ WorkerClaim
  \/ WorkerAppends
  \/ WorkerChecks
  \/ WorkerMkdirFail
  \/ WorkerWriteSetup
  \/ WriteCreate
  \/ WritePut
  \/ WriteFinish
  \/ WorkerWriteJoin
  \/ SidecarDone({"Sidecar index ready"})
  \/ WorkerStat
  \/ WorkerFinalize
  \/ WorkerRollback
  \/ CleanupLock
  \/ CleanupDelete
  \/ CleanupBuses
  \/ Tick

SpecCollect == Init /\ [][NextCollect]_vars

\* C17 (SpecCollect): a run of the retention collector changes exactly the
\* jobs that are completed with artifact.expires_at <= now.  Its section
\* gives each of them status expired, stage expired, progress 100, no
\* artifact and no artifact path, an empty log and next_seq = 1 and leaves
\* every other job as it is; its file deletion changes no job; its last step
\* removes the broadcast channels of exactly the jobs it expired.
ExpiresBy(j, t) ==
  /\ jobs[j].status = "completed"
  /\ jobs[j].artifact # <<>>
  /\ jobs[j].artifact[1].expires_at <= t

CollectorSectionExact ==
  (cl_pc = "idle" /\ cl_pc' = "delete") =>
    \A j \in JobIds :
      IF ExpiresBy(j, now)
      THEN /\ jobs'[j].status = "expired"
           /\ jobs'[j].stage = "expired"
           /\ jobs'[j].progress = P(100)
           /\ jobs'[j].artifact = <<>>
           /\ ~jobs'[j].artifact_path
           /\ jobs'[j].events = <<>>
           /\ jobs'[j].next_seq = 1
           /\ j \in cl_ids'
           /\ buses' = buses
      ELSE /\ jobs'[j] = jobs[j]
           /\ j \notin cl_ids'

CollectorDeleteExact ==
  (cl_pc = "delete" /\ cl_pc' = "buses") =>
    (jobs' = jobs /\ buses' = buses /\ cl_ids' = cl_ids)

CollectorBusesExact ==
  (cl_pc = "buses" /\ cl_pc' = "idle") =>
    /\ jobs' = jobs
    /\ \A j \in JobIds : j \in buses' <=> (j \in buses /\ j \notin cl_ids)
    /\ \A j \in cl_ids : jobs[j].status = "expired"

C17_CollectorChangesExactlyDue ==
  [][CollectorSectionExact /\ CollectorDeleteExact /\ CollectorBusesExact]_vars

\* A run of the collector has expired one job and removed its channel while
\* the other job, completed later and not yet due, keeps its artifact and
\* its channel.
C17_Witness ==
  \E j, k \in JobIds :
    /\ j # k
    /\ jobs[j].status = "expired"
    /\ j \notin buses
    /\ jobs[k].status = "completed"
    /\ jobs[k].artifact # <<>>
    /\ k \in buses
    /\ cl_pc = "idle"

\* One job through its whole life up to expiry and a client that fetches its
\* events and downloads its artifact.  The client asks with sinceSeq 0,
\* MaxSince or the number of events in the log, and with no limit or one
\* below, inside and above the allowed range.
FetchLimits == {<<>>, <<0>>, <<1>>, <<2>>, <<EVENTS_MAX_LIMIT + 1>>}

FetchSince(j) == {0, MaxSince, Len(jobs[j].events)}

NextRead ==
  \/ LifeToExpiry
  \/ \E j \in JobIds : \E since \in FetchSince(j) : \E limit \in FetchLimits :
       EventsFetch(j, since, limit)
  \/ \E j \in JobIds : DownloadOpen(j)
  \/ DownloadRead
  \/ ReadAnswer

SpecRead == Init /\ [][NextRead]_vars

\* C18 (SpecRead): a download request that finds its job expired answers
\* 410 ARTIFACT_MISSING.
C18_ExpiredDownloadGone ==
  [][(resp = NoRequest /\ resp'.kind = "download"
        /\ jobs[resp'.job].status = "expired") =>
       (resp'.code = 410 /\ resp'.error = "ARTIFACT_MISSING")]_vars

\* C19 (SpecGone): a request for the historical events of a job whose status
\* is expired, and a new request for its event stream, answers 410
\* JOB_EXPIRED, with the job's broadcast channel still there or removed.
ExpiredFetchGone ==
  (resp = NoRequest /\ resp'.kind = "events" /\ jobs[resp'.job].status = "expired") =>
    (resp'.code = 410 /\ resp'.error = "JOB_EXPIRED")

ExpiredStreamGone ==
  (st_pc = "idle" /\ st_pc' # "idle" /\ jobs[st_job].status = "expired") =>
    st_pc' = "gone"

C19_ExpiredAnswersGone == [][ExpiredFetchGone /\ ExpiredStreamGone]_vars

\* The stream request was refused while the channel of the expired job was
\* still there, and an events fetch has been refused too.
C19_Witness ==
  /\ jobs[st_job].status = "expired"
  /\ st_job \in buses
  /\ st_pc = "gone"
  /\ resp.kind = "events"
  /\ resp.job = st_job
  /\ resp.code = 410
  /\ resp.error = "JOB_EXPIRED"

\* C20 (SpecRead): an events fetch with sinceSeq S and limit L that is
\* answered 200 returns the events of the log with seq > S, in ascending seq
\* order, cut to the first min(L', count) where L' is L clamped to
\* [1, 2000] and 200 when L is absent; nextSeq is the job's next_seq; with S
\* the number of events in the log the list is empty and nextSeq is S + 1.
AfterSince(evs, S) == SelectSeq(evs, LAMBDA e : e.seq > S)

ClampedLimit(L) ==
  IF L = <<>> THEN 200
  ELSE IF L[1] < 1 THEN 1
  ELSE IF L[1] > 2000 THEN 2000
  ELSE L[1]

FetchAnswerExact ==
  (resp = NoRequest /\ resp'.kind = "events" /\ resp'.code = 200) =>
    LET log == jobs[resp'.job].events
        rest == AfterSince(log, resp'.since)
        L == ClampedLimit(resp'.limit)
        n == IF L < Len(rest) THEN L ELSE Len(rest)
    IN /\ resp'.events = SubSeq(rest, 1, n)
       /\ \A i, k \in 1..Len(resp'.events) :
            i < k => resp'.events[i].seq < resp'.events[k].seq
       /\ resp'.next_seq = jobs[resp'.job].next_seq
       /\ resp'.since = Len(log) =>
            (resp'.events = <<>> /\ resp'.next_seq = resp'.since + 1)

NextRing ==
  \/ \E j \in SingleJob : CreateInsert(j)
  \/ \E j \in JobIds : CreateSend(j)
  \/ WorkerClaim
  \/ WorkerAppendsToWrite
  \/ WorkerChecksToWrite
  \/ WorkerWriteSetup
  \/ \E j \in JobIds : HeartbeatTickLong(j)

SpecRing == Init /\ [][NextRing]_vars

\* C21 (SpecRing): the event log of a job never holds more than
\* MAX_JOB_EVENTS events; its seqs are consecutive and its last event is the
\* one issued last (seq next_seq - 1), so an append beyond the cap has
\* dropped the oldest events.
C21_LogBounded ==
  \A j \in JobIds :
    LET evs == jobs[j].events IN
      /\ Len(evs) <= 5000
      /\ \A i \in 1..(Len(evs) - 1) : evs[i + 1].seq = evs[i].seq + 1
      /\ evs # <<>> => evs[Len(evs)].seq = jobs[j].next_seq - 1

\* The log is full and its oldest events have been dropped.
C21_Witness ==
  \E j \in JobIds :
    /\ Len(jobs[j].events) = 5000
    /\ jobs[j].events[1].seq > 1
    /\ jobs[j].next_seq = jobs[j].events[1].seq + 5000

\* The rate limiter under several configurations, checked for two keys while
\* time passes.
LimiterConfigs ==
  {[per_minute |-> 2, burst |-> 1, cache_capacity |-> 1],
   [per_minute |-> 1, burst |-> 2, cache_capacity |-> 1],
   [per_minute |-> 0, burst |-> 0, cache_capacity |-> 1]}

InitLimiter ==
  /\ InitExport
  /\ st_job = 0
  /\ InitPage({}, 1)
  /\ \E config \in LimiterConfigs : InitMcp(config)

NextLimiter ==
  \/ \E key \in LimiterKeys : RateCheck(key)
  \/ InstTick

SpecLimiter == InitLimiter /\ [][NextLimiter]_vars

\* C22 (SpecLimiter): the token count of every bucket lies in [0, capacity]
\* with capacity = max(burst, per-minute rate); a check is allowed exactly
\* when the refilled count is at least one token and then takes exactly one
\* token, and a rejected check takes none.
TokensInRange ==
  \A key \in LimiterKeys :
    buckets[key] # <<>> =>
      /\ buckets[key][1].tokens >= 0
      /\ buckets[key][1].tokens <=
           (IF limiter.burst > limiter.per_minute THEN limiter.burst
            ELSE limiter.per_minute) * 60000

\* The count of the bucket of `key` once the time since its last refill is
\* credited (a new bucket is full).
RefilledCount(key) ==
  LET cap == (IF limiter.burst > limiter.per_minute THEN limiter.burst
              ELSE limiter.per_minute) * 60000
  IN IF buckets[key] = <<>> THEN cap
     ELSE LET sum == buckets[key][1].tokens
                       + (inst - buckets[key][1].last_refill) * limiter.per_minute
          IN IF sum > cap THEN cap ELSE sum

CheckTakesOneIfAllowed ==
  (buckets' # buckets \/ rate' # rate) =>
    \E key \in LimiterKeys :
      /\ rate'.allowed <=> RefilledCount(key) >= 60000
      /\ buckets'[key] # <<>>
      /\ buckets'[key][1].tokens =
           IF rate'.allowed THEN RefilledCount(key) - 60000 ELSE RefilledCount(key)
      /\ \A other \in LimiterKeys \ {key} : buckets'[other] = buckets[other]

InitMcp60 ==
  /\ InitExport
  /\ st_job = 0
  /\ InitPage({}, 1)
  /\ InitMcp([per_minute |-> 60, burst |-> 1, cache_capacity |-> 1])

NextMcp ==
  \/ \E jsonrpc \in {"2.0", "1.0"} : \E header \in AuthHeaders : Mcp(jsonrpc, header)
  \/ InstTick

SpecMcp == InitMcp60 /\ [][NextMcp]_vars

\* C23 (SpecMcp): with per-minute rate 60 and burst 1, a call to /mcp that
\* passes authentication less than a second after a call with the same key
\* was answered 200 is rejected with 429, X-RateLimit-Remaining 0 and a
\* retry-after of about 1000 ms.
C23_SecondCallRejected ==
  [][(/\ mcp_resp.code = 200
      /\ buckets[API_KEY] # <<>>
      /\ inst - buckets[API_KEY][1].last_refill < 1000
      /\ mcp_resp' # mcp_resp
      /\ mcp_resp'.code \in {200, 429})
     => (/\ mcp_resp'.code = 429
         /\ mcp_resp'.remaining = 0
         /\ mcp_resp'.retry_after_ms \in 900..1100)]_vars

\* The query cache under capacities 0, 1 and 2, with gets and sets of three
\* keys.
CacheCapacities == {0, 1, 2}

InitCache ==
  /\ InitExport
  /\ st_job = 0
  /\ InitPage({}, 1)
  /\ \E capacity \in CacheCapacities :
       InitMcp([per_minute |-> 1, burst |-> 1, cache_capacity |-> capacity])

NextCache ==
  \/ \E key \in CacheKeys : CacheGet(key)
  \/ \E key \in CacheKeys : \E value \in CacheValues : CacheSet(key, value)

SpecCache == InitCache /\ [][NextCache]_vars

\* C24 (SpecCache): after any sequence of get and set calls the query cache
\* holds at most `capacity` entries, where a configured capacity of 0 counts
\* as 1.
C24_CacheSizeBounded ==
  /\ cache.capacity >= 1
  /\ Cardinality({k \in CacheKeys : cache.values[k] # <<>>}) <= cache.capacity
  /\ Len(cache.order) <= cache.capacity

\* A set on a full cache of capacity 2 has evicted an entry.
C24_Witness ==
  /\ cache.capacity = 2
  /\ Len(cache.order) = 2
  /\ \E i \in 1..Len(cache_ops) :
       /\ cache_ops[i].op = "set"
       /\ cache.values[cache_ops[i].key] = <<>>

\* C25 (SpecCache): the query cache behaves as a reference LRU.  The
\* reference gives every entry the number of the call that last got or set
\* it; a get of a present key returns the value last set and renews the
\* number, a set stores the value and renews the number, and a set that
\* makes the size exceed the capacity evicts the entry with the smallest
\* number.  After every sequence of calls the cache holds the entries of the
\* reference with their values, its order lists them from least to most
\* recent, and the last get returned what the reference returns.
RefPresent(ref) == {k \in CacheKeys : ref[k] # <<>>}

RefOldest(ref) ==
  CHOOSE k \in RefPresent(ref) :
    \A other \in RefPresent(ref) : ref[k][1].stamp <= ref[other][1].stamp

RECURSIVE RefAfter(_, _)
RefAfter(n, cap) ==
  IF n = 0 THEN [k \in CacheKeys |-> <<>>]
  ELSE LET prev == RefAfter(n - 1, cap)
           call == cache_ops[n]
       IN IF call.op = "get"
          THEN IF prev[call.key] = <<>> THEN prev
               ELSE [prev EXCEPT ![call.key] =
                       <<[value |-> prev[call.key][1].value, stamp |-> n]>>]
          ELSE LET stored == [prev EXCEPT ![call.key] =
                                <<[value |-> call.value, stamp |-> n]>>]
               IN IF Cardinality(RefPresent(stored)) > cap
                  THEN [stored EXCEPT ![RefOldest(stored)] = <<>>]
                  ELSE stored

C25_CacheIsLRU ==
  LET n == Len(cache_ops)
      ref == RefAfter(n, cache.capacity)
  IN /\ \A k \in CacheKeys :
          IF ref[k] = <<>> THEN cache.values[k] = <<>>
          ELSE cache.values[k] = <<ref[k][1].value>>
     /\ {cache.order[i] : i \in 1..Len(cache.order)} = RefPresent(ref)
     /\ \A i, k \in 1..Len(cache.order) :
          i < k => ref[cache.order[i]][1].stamp < ref[cache.order[k]][1].stamp
     /\ (n > 0 /\ cache_ops[n].op = "get") =>
          LET before == RefAfter(n - 1, cache.capacity)[cache_ops[n].key]
          IN got = IF before = <<>> THEN <<>> ELSE <<before[1].value>>

\* With capacity 2: a and b are set, a is got, and the set of c has evicted
\* b, not a.
C25_Witness ==
  /\ cache.capacity = 2
  /\ Len(cache_ops) = 4
  /\ cache_ops[1].op = "set" /\ cache_ops[1].key = "a"
  /\ cache_ops[2].op = "set" /\ cache_ops[2].key = "b"
  /\ cache_ops[3].op = "get" /\ cache_ops[3].key = "a"
  /\ cache_ops[4].op = "set" /\ cache_ops[4].key = "c"
  /\ cache.values["a"] # <<>>
  /\ cache.values["b"] = <<>>
  /\ cache.order = <<"a", "c">>

\* A client reads a ranked result page by page.  Some of the scores differ
\* only in the seventh decimal.
PageScores == {9123454, 9123451, 9123460, 5000000}
PageKeys == {<<"a">>, <<"b">>}
PageRows == {rs \in SUBSET [score : PageScores, key : PageKeys] : Cardinality(rs) <= 3}

InitPages ==
  /\ InitExport
  /\ st_job = 0
  /\ InitMcp(DefaultConfig)
  /\ \E rs \in PageRows : \E limit \in 1..2 : InitPage(rs, limit)

SpecPages == InitPages /\ [][NextPage]_vars

\* C26 (SpecPages): when the client has followed the cursors to the end, the
\* pages put together are the full list of rows, each once, by score
\* descending and then key ascending; every page is truncated exactly when
\* rows remain after it, and its cursor encodes its last row.
RECURSIVE ConcatItems(_)
ConcatItems(ps) ==
  IF ps = <<>> THEN <<>> ELSE Head(ps).items \o ConcatItems(Tail(ps))

RankedOrder(seq) ==
  \A i, k \in 1..Len(seq) :
    i < k => \/ seq[i].score > seq[k].score
             \/ seq[i].score = seq[k].score /\ KeyLess(seq[i].key, seq[k].key)

C26_PaginationComplete ==
  PagesDone =>
    LET all == ConcatItems(pages) IN
      /\ Len(all) = Cardinality(rows)
      /\ {all[i] : i \in 1..Len(all)} = rows
      /\ RankedOrder(all)
      /\ \A n \in 1..Len(pages) :
           /\ pages[n].truncated <=> n < Len(pages)
           /\ pages[n].truncated =>
                /\ pages[n].items # <<>>
                /\ decode_cursor(pages[n].next_cursor[1]) # <<>>
                /\ decode_cursor(pages[n].next_cursor[1])[1].key =
                     pages[n].items[Len(pages[n].items)].key

\* Cursors of several scores and of every key of up to three characters out
\* of 'a' and ':'.
CursorScores == {0, 4, 5000000, 9123451, 9123454, 9123460, 9999996, 12345678, 100000004}

CursorKeys ==
  UNION {[1..n -> {"a", ":"}] : n \in 0..3}

InitCursor ==
  /\ InitExport
  /\ st_job = 0
  /\ InitMcp(DefaultConfig)
  /\ InitPage({}, 1)

NextCursor ==
  \E score \in CursorScores : \E key \in CursorKeys : CursorRoundTrip(score, key)

SpecCursor == InitCursor /\ [][NextCursor]_vars

\* C27 (SpecCursor): decoding an encoded cursor gives the key it was made
\* of, also a key with "::" in it, and the score rounded to six decimals.
C27_CursorRoundTrips ==
  cur.encoded # <<>> =>
    /\ cur.decoded # <<>>
    /\ cur.decoded[1].key = cur.key
    /\ cur.decoded[1].score % 10 = 0
    /\ cur.decoded[1].score - cur.score \in -4..4

\* The cursor of a key with "::" in it and of a score that is rounded.
C27_Witness ==
  /\ cur.key = <<"a", ":", ":">>
  /\ cur.score = 9123454
  /\ cur.decoded # <<>>
  /\ cur.decoded[1].score = 9123450

\* MaxJobs clients submit payloads with and without nodes and
\* relationships; the worker takes the accepted jobs up to the capsule write.
PayloadSizes == 0..1

NextSubmit ==
  \/ \E j \in JobIds : \E nodes, relationships \in PayloadSizes :
       CreateRequest(j, nodes, relationships)
  \/ \E j \in JobIds : CreateSend(j)
  \/ \E j \in JobIds : CreateAppend(j)
  \/ ReadAnswer
  \/ WorkerClaim
  \/ WorkerAppendsToWrite
  \/ WorkerChecksToWrite

SpecSubmit == Init /\ [][NextSubmit]_vars

\* C28 (SpecSubmit): an authenticated submission with no nodes or no
\* relationships is answered 400 INVALID_EXPORT_REQUEST and creates no job
\* record, no event bus, no queue entry and no event.
C28_InvalidSubmissionRejected ==
  [][\A j \in JobIds : \A nodes, relationships \in PayloadSizes :
       ((nodes = 0 \/ relationships = 0) /\ CreateRequest(j, nodes, relationships)) =>
         /\ resp'.kind = "create"
         /\ resp'.code = 400
         /\ resp'.error = "INVALID_EXPORT_REQUEST"
         /\ jobs' = jobs
         /\ buses' = buses
         /\ queue' = queue
         /\ pend' = pend
         /\ cpc' = cpc]_vars

\* A submission was rejected while an accepted job is in the registry.
C28_Witness ==
  /\ resp.kind = "create"
  /\ resp.code = 400
  /\ jobs[1].status # "none"
  /\ jobs[2].status = "none"

\* Requests to the export routes and to /mcp with every kind of
\* Authorization header.
NextAuth ==
  \/ \E route \in ExportRoutes : \E header \in AuthHeaders : AuthGate(route, header)
  \/ \E jsonrpc \in {"2.0", "1.0"} : \E header \in AuthHeaders : Mcp(jsonrpc, header)
  \/ InstTick

SpecAuth == Init /\ [][NextAuth]_vars

\* C29 (SpecAuth): a request to an export route or to /mcp whose
\* Authorization header is missing, or is not "Bearer " followed by exactly
\* the configured key, is answered 401 UNAUTHORIZED, changes no job, queue
\* or bus, and takes no rate-limit token.
ExactKeyHeader(header) ==
  header = <<<<"B", "e", "a", "r", "e", "r", " ", "k">>>>

C29_UnauthorizedRejected ==
  [][/\ (auth' # auth /\ ~ExactKeyHeader(auth'.header)) =>
          /\ auth'.code = 401
          /\ auth'.error = "UNAUTHORIZED"
          /\ jobs' = jobs /\ queue' = queue /\ buses' = buses /\ buckets' = buckets
     /\ (mcp_resp' # mcp_resp /\ ~ExactKeyHeader(mcp_resp'.header)) =>
          /\ mcp_resp'.code = 401
          /\ mcp_resp'.error = "UNAUTHORIZED"
          /\ jobs' = jobs /\ queue' = queue /\ buses' = buses /\ buckets' = buckets]_vars


\* The service with backend_mode RunpodQueue: one job, its submission, the
\* worker's Runpod pipeline, the endpoint and the cancel handler.
NextRunpod ==
  \/ \E j \in SingleJob : CreateInsert(j)
  \/ \E j \in JobIds : CreateSend(j)
  \/ \E j \in JobIds : CreateAppend(j)
  \/ RunpodClaim
  \/ RunpodAppends
  \/ RunpodStage
  \/ RunpodSection
  \/ RunpodSubmit
  \/ RunpodRecord
  \/ RunpodLoop
  \/ RunpodPoll
  \/ RunpodGetStatus
  \/ RunpodReport
  \/ RunpodMatch
  \/ WorkerLastAppends
  \/ WorkerRollback
  \/ RemoteStep
  \/ \E j \in JobIds : CancelLock(j)
  \/ CancelAppend
  \/ CancelFinish

RunpodWorkerStep ==
  \/ RunpodClaim
  \/ RunpodAppends
  \/ RunpodStage
  \/ RunpodSection
  \/ RunpodSubmit
  \/ RunpodRecord
  \/ RunpodLoop
  \/ RunpodPoll
  \/ RunpodGetStatus
  \/ RunpodReport
  \/ RunpodMatch
  \/ WorkerLastAppends
  \/ WorkerRollback

\* The worker task and the handlers in progress keep running; the endpoint
\* and the clients (a cancel request) owe nothing.
RunpodFairness ==
  /\ WF_vars(RunpodWorkerStep)
  /\ WF_vars(CreateStep)
  /\ WF_vars(CancelStep)

InitRunpod ==
  /\ InitBackend("runpod_queue")
  /\ InitMcp(DefaultConfig)
  /\ InitPage({}, 1)
  /\ st_job = 0

SpecRunpod == InitRunpod /\ [][NextRunpod]_vars /\ RunpodFairness

\* C30 (SpecRunpod): the polling of a job always ends: from the head of the
\* polling loop the job reaches a terminal status and the worker leaves the
\* job, whatever the endpoint reports.
C30_PollingEnds ==
  \A j \in JobIds :
    (wjob = j /\ wpc = "rp_poll")
      ~> (wjob # j /\ jobs[j].status \in TerminalStates)

\* C31 (Spec): the first event of a job's log is the submission's queued
\* event: it has seq 1 and stage "queued", so it precedes the worker's
\* job_started event and every other event of the job.
C31_QueuedEventFirst ==
  \A j \in JobIds :
    jobs[j].events # <<>> =>
      /\ jobs[j].events[1].seq = 1
      /\ jobs[j].events[1].stage = "queued"

\* Either backend, one job: the submission, the worker with the pipeline of
\* the configured backend_mode, the Runpod endpoint and the cancel handler.
\* The stages are short (no heartbeat is due) and the sidecar build succeeds.
InitBackends ==
  /\ \E mode \in BackendModes : InitBackend(mode)
  /\ InitMcp(DefaultConfig)
  /\ InitPage({}, 1)
  /\ st_job = 0

NextBackends ==
  \/ \E j \in SingleJob : CreateInsert(j)
  \/ \E j \in JobIds : CreateSend(j)
  \/ \E j \in JobIds : CreateAppend(j)
  \/ WorkerClaim
  \/ WorkerAppends
  \/ WorkerChecks
  \/ WorkerMkdirFail
  \/ WorkerWriteSetup
  \/ WriteCreate
  \/ WritePut
  \/ WriteFinish
  \/ WorkerWriteJoin
  \/ SidecarDone({"Sidecar index ready"})
  \/ WorkerStat
  \/ WorkerFinalize
  \/ WorkerRollback
  \/ RunpodClaim
  \/ RunpodAppends
  \/ RunpodStage
  \/ RunpodSection
  \/ RunpodSubmit
  \/ RunpodRecord
  \/ RunpodLoop
  \/ RunpodPoll
  \/ RunpodGetStatus
  \/ RunpodReport
  \/ RunpodMatch
  \/ RemoteStep
  \/ \E j \in JobIds : CancelLock(j)
  \/ CancelAppend
  \/ CancelFinish

SpecBackends == InitBackends /\ [][NextBackends]_vars

\* The events of job j that the worker appended: every event but the
\* submission's queued event and the cancel handler's job_canceled event.
WorkerEvents(j) ==
  {i \in 1..Len(jobs[j].events) :
     /\ jobs[j].events[i].stage # "queued"
     /\ jobs[j].events[i].type # "job_canceled"}

\* Job j is canceled and the worker has left no trace on it.
Untouched(j) ==
  /\ jobs[j].status = "canceled"
  /\ wjob # j
  /\ WorkerEvents(j) = {}
  /\ j \notin files

\* C32 (SpecBackends): a job that was canceled before the worker claimed it
\* stays canceled and untouched: when the worker takes its id from the queue
\* it returns to the queue at once, and the job never becomes running or
\* failed, gets no event from the worker and no file.
C32_CanceledJobSkipped ==
  [][\A j \in JobIds : Untouched(j) => Untouched(j)']_vars

\* A canceled job whose id the worker has taken from the queue and skipped.
C32_Witness ==
  \E j \in JobIds :
    /\ Untouched(j)
    /\ cpc[j] = "done"
    /\ j \notin Range(queue)
    /\ wpc = "idle"
    /\ Len(jobs[j].events) = 2

\* Tool calls for one capsule path, all of them before the index is cached:
\* the capsule holds any node ids (a capsule can hold two frames of one id)
\* and the sidecar is absent or holds the rows of an earlier build.
Capsules ==
  {<<1>>, <<1, 2>>, <<1, 1>>}

Sidecars == {<<>>, <<{1}>>, <<{1, 2}>>}

InitIndex ==
  /\ InitExport
  /\ InitEdge(DefaultConfig)
  /\ InitPage({}, 1)
  /\ st_job = 0
  /\ \E nodes \in Capsules : \E db \in Sidecars : InitTools(nodes, db)

NextIndex ==
  \/ \E c \in ToolCalls : IndexLookup(c)
  \/ \E c \in ToolCalls : IndexLoad(c)
  \/ \E c \in ToolCalls : IndexBuild(c)
  \/ \E c \in ToolCalls : PersistClear(c)
  \/ \E c \in ToolCalls : PersistTx(c)
  \/ \E c \in ToolCalls : IndexInsert(c)

SpecIndex == InitIndex /\ [][NextIndex]_vars

\* C33 (SpecIndex): the side-index of a capsule path is loaded or built at
\* most once: at most one call ever runs the load-or-build closure, and all
\* the calls that returned an index returned the same one.
C33_IndexLoadedOnce ==
  /\ Cardinality(loaded) <= 1
  /\ \A c1, c2 \in ToolCalls :
       (tpc[c1] = "done" /\ tpc[c2] = "done") => tidx[c1] = tidx[c2]

\* C34 (SpecIndex): a persist that fails part-way leaves a sidecar that
\* held rows with the rows it held when the persist began.
C34_FailedPersistKeepsRows ==
  [][\A c \in ToolCalls :
       (tpc[c] = "tx" /\ tpc'[c] = "failed" /\ held[c] # <<>>)
         => sidecar' = held[c]]_vars

\* C35 (Spec): a job's updated_at never decreases and is never earlier than
\* its created_at.
C35_UpdatedAtMonotonic ==
  /\ [][\A j \in JobIds :
          (JobExists(j) /\ JobExists(j)') =>
            jobs'[j].updated_at >= jobs[j].updated_at]_vars
  /\ [](\A j \in JobIds : JobExists(j) => jobs[j].updated_at >= jobs[j].created_at)

\* Submissions around a worker task that can end: the submission handlers,
\* the worker up to the start of a capsule write, and the end of its task.
NextDown ==
  \/ \E j \in JobIds : CreateInsert(j)
  \/ \E j \in JobIds : CreateSend(j)
  \/ \E j \in JobIds : CreateSendFail(j)
  \/ \E j \in JobIds : CreateAppend(j)
  \/ WorkerClaim
  \/ WorkerAppendsToWrite
  \/ WorkerChecksToWrite
  \/ WorkerWriteSetup
  \/ ReceiverClose
  \/ \E j \in JobIds : CancelLock(j)
  \/ CancelAppend
  \/ CancelFinish

SpecDown == Init /\ [][NextDown]_vars

\* C36 (SpecDown): a submission whose queue hand-off fails is rolled back:
\* the record it removes holds no event and its id is in no queue, and after
\* the 503 answer neither a record nor an event bus of the job exists and no
\* handler holds an event of it to broadcast.
C36_FailedHandOffRolledBack ==
  /\ [][\A j \in JobIds :
          (cpc[j] = "send" /\ cpc'[j] = "unavailable") =>
            /\ jobs[j].events = <<>>
            /\ j \notin Range(queue)]_vars
  /\ [](\A j \in JobIds :
          cpc[j] = "unavailable" =>
            /\ ~JobExists(j)
            /\ jobs[j] = NoJob
            /\ j \notin buses
            /\ j \notin Range(queue)
            /\ wjob # j /\ can_job # j)

\* A second submission was answered 503 after the first one was accepted.
C36_Witness ==
  /\ cpc[2] = "unavailable"
  /\ JobExists(1)
  /\ jobs[1].events # <<>>

\* The jobs with status running.
RunningJobs == {j \in JobIds : jobs[j].status = "running"}

\* C37 (SpecQueue): at most one job is running, and it is the job in the
\* worker's hands; the worker takes the next id from the queue only when no
\* job is running.
C37_OneRunningJob ==
  /\ [](Cardinality(RunningJobs) <= 1)
  /\ [](\A j \in RunningJobs : wjob = j)
  /\ [][(wpc = "idle" /\ wpc' # "idle") => RunningJobs = {}]_vars

\* The worker runs the second job after it has completed the first.
C37_Witness ==
  /\ jobs[1].status = "completed"
  /\ jobs[2].status = "running"
  /\ wjob = 2

\* The terminal events in the log of job j.
TerminalEvents(j) ==
  {i \in 1..Len(jobs[j].events) :
     jobs[j].events[i].type \in {"job_completed", "job_failed", "job_canceled"}}

\* C38 (SpecBackends): the log of a job never holds more than one terminal
\* event (job_completed, job_failed, job_canceled).
C38_OneTerminalEvent ==
  \A j \in JobIds : Cardinality(TerminalEvents(j)) <= 1

\* C39 (Spec): in the local pipeline the progress of a job never goes
\* backwards: the progress values of the events of its log are
\* non-decreasing in seq order, and so is the progress of its record, which
\* the status snapshots show.
C39_ProgressMonotonic ==
  /\ [](\A j \in JobIds : \A i \in 1..(Len(jobs[j].events) - 1) :
          jobs[j].events[i].progress <= jobs[j].events[i + 1].progress)
  /\ [][\A j \in JobIds :
          (JobExists(j) /\ JobExists(j)') =>
            to_response(jobs[j]).progress <= to_response(jobs'[j]).progress]_vars

\* Tool calls on one capsule whose sidecar holds what the capsule holds: each
\* call gets the index and runs one tool.
InitCalls ==
  /\ InitExport
  /\ InitEdge(DefaultConfig)
  /\ InitPage({}, 1)
  /\ st_job = 0
  /\ \E nodes \in {<<1>>, <<1, 2>>} : InitTools(nodes, <<SeqToSet(nodes)>>)

NextCalls ==
  \/ \E c \in ToolCalls : IndexLookup(c)
  \/ \E c \in ToolCalls : IndexLoad(c)
  \/ \E c \in ToolCalls : IndexBuild(c)
  \/ \E c \in ToolCalls : PersistClear(c)
  \/ \E c \in ToolCalls : PersistTx(c)
  \/ \E c \in ToolCalls : IndexInsert(c)
  \/ \E c \in ToolCalls : \E req \in ToolRequests : ToolLookup(c, req)
  \/ \E c \in ToolCalls : ToolRun(c)

SpecCalls == InitCalls /\ [][NextCalls]_vars

\* C40 (SpecCalls): two answered calls with the same tool and arguments have
\* the same result, the same confidence block and the same pagination block.
C40_CacheHitSameAnswer ==
  \A c1, c2 \in ToolCalls :
    (/\ tpc[c1] = "answered" /\ tpc[c2] = "answered"
     /\ tcall[c1] = tcall[c2]
     /\ answers[c1][1].error = "" /\ answers[c2][1].error = "")
      => answers[c1] = answers[c2]

====
